---- MODULE Spec2Model ----
(***************************************************************************)
(* VIES return generation: the spreadsheet pipeline of ExcelProcessor      *)
(* (column mapping, per-row extraction, VAT validation, classification,    *)
(* aggregation, metrics) and the file emitter of VIESGenerator.            *)
(*                                                                         *)
(* Strings are sequences of one-character strings, so that upper(),        *)
(* strip(), replace(), concatenation and the regular expressions act on    *)
(* characters.  Amounts are integers counting thousandths of a euro        *)
(* (1000 = 1.00), so that round(x, 2) is a real rounding.                  *)
(***************************************************************************)
EXTENDS Integers, Sequences, FiniteSets, TLC

(***************************************************************************)
(* Characters and the str methods the code uses                            *)
(***************************************************************************)
DigitChars == <<"0", "1", "2", "3", "4", "5", "6", "7", "8", "9">>

UpperChars == <<"A", "B", "C", "D", "E", "F", "G", "H", "I", "J", "K", "L", "M",
                "N", "O", "P", "Q", "R", "S", "T", "U", "V", "W", "X", "Y", "Z">>

LowerChars == <<"a", "b", "c", "d", "e", "f", "g", "h", "i", "j", "k", "l", "m",
                "n", "o", "p", "q", "r", "s", "t", "u", "v", "w", "x", "y", "z">>

Range(s) == {s[i] : i \in DOMAIN s}

Digit == Range(DigitChars)

UpperLetter == Range(UpperChars)

Whitespace == {" ", "\t", "\n", "\r"}

\* str.upper() and str.lower(), character by character
UpperChar(c) ==
    IF \E i \in DOMAIN LowerChars : LowerChars[i] = c
    THEN UpperChars[CHOOSE i \in DOMAIN LowerChars : LowerChars[i] = c]
    ELSE c

LowerChar(c) ==
    IF \E i \in DOMAIN UpperChars : UpperChars[i] = c
    THEN LowerChars[CHOOSE i \in DOMAIN UpperChars : UpperChars[i] = c]
    ELSE c

Upper(s) == IF s = <<>> THEN <<>> ELSE [i \in 1..Len(s) |-> UpperChar(s[i])]

Lower(s) == IF s = <<>> THEN <<>> ELSE [i \in 1..Len(s) |-> LowerChar(s[i])]

\* str.isdigit(): non-empty and every character a digit
IsDigitStr(s) == Len(s) > 0 /\ \A i \in DOMAIN s : s[i] \in Digit

\* str.strip(): leading and trailing whitespace removed
Strip(s) ==
    LET keep == {i \in DOMAIN s : s[i] \notin Whitespace} IN
    IF keep = {} THEN <<>>
    ELSE LET lo == CHOOSE i \in keep : \A j \in keep : i <= j
             hi == CHOOSE i \in keep : \A j \in keep : j <= i
         IN  SubSeq(s, lo, hi)

\* str.replace(c, ''): every occurrence of the character c removed
RECURSIVE RemoveChar(_, _)
RemoveChar(s, c) ==
    IF s = <<>> THEN <<>>
    ELSE IF Head(s) = c THEN RemoveChar(Tail(s), c)
    ELSE <<Head(s)>> \o RemoveChar(Tail(s), c)

\* str.replace(c, d) for single characters
ReplaceChar(s, c, d) ==
    IF s = <<>> THEN <<>> ELSE [i \in 1..Len(s) |-> IF s[i] = c THEN d ELSE s[i]]

\* `sub in s` for strings
Contains(s, sub) ==
    \E i \in 1..(Len(s) - Len(sub) + 1) : SubSeq(s, i, i + Len(sub) - 1) = sub

RECURSIVE Concat(_)
Concat(ss) == IF ss = <<>> THEN <<>> ELSE Head(ss) \o Concat(Tail(ss))

(***************************************************************************)
(* Regular expressions of the VAT_FORMATS table.  A pattern is a set of    *)
(* alternatives, each anchored ^...$ and a sequence of atoms               *)
(* [cls, lo, hi]: between lo and hi characters of the class cls.           *)
(***************************************************************************)
AlphaNum == UpperLetter \cup Digit

Atom(cls, lo, hi) == [cls |-> cls, lo |-> lo, hi |-> hi]

Lit(c) == Atom({c}, 1, 1)

D(lo, hi) == Atom(Digit, lo, hi)

VAT_FORMATS ==
    [AT |-> {<<Lit("U"), D(8, 8)>>},
     BE |-> {<<D(10, 10)>>},
     BG |-> {<<D(9, 10)>>},
     CY |-> {<<D(8, 8), Atom(UpperLetter, 1, 1)>>},
     CZ |-> {<<D(8, 10)>>},
     DE |-> {<<D(9, 9)>>},
     DK |-> {<<D(8, 8)>>},
     EE |-> {<<D(9, 9)>>},
     EL |-> {<<D(9, 9)>>},
     ES |-> {<<Atom(AlphaNum, 1, 1), D(7, 7), Atom(AlphaNum, 1, 1)>>},
     FI |-> {<<D(8, 8)>>},
     FR |-> {<<Atom(AlphaNum, 2, 2), D(9, 9)>>},
     GB |-> {<<D(9, 9)>>, <<D(12, 12)>>,
             <<Lit("G"), Lit("D"), D(3, 3)>>, <<Lit("H"), Lit("A"), D(3, 3)>>},
     HR |-> {<<D(11, 11)>>},
     HU |-> {<<D(8, 8)>>},
     IE |-> {<<D(7, 7), Atom(UpperLetter, 1, 2)>>},
     IT |-> {<<D(11, 11)>>},
     LT |-> {<<D(9, 9)>>, <<D(12, 12)>>},
     LU |-> {<<D(8, 8)>>},
     LV |-> {<<D(11, 11)>>},
     MT |-> {<<D(8, 8)>>},
     NL |-> {<<D(9, 9), Lit("B"), D(2, 2)>>},
     PL |-> {<<D(10, 10)>>},
     PT |-> {<<D(9, 9)>>},
     RO |-> {<<D(2, 10)>>},
     SE |-> {<<D(12, 12)>>},
     SI |-> {<<D(8, 8)>>},
     SK |-> {<<D(10, 10)>>}]

\* The keys of VAT_FORMATS as strings of characters
FormatKey(name) ==
    CASE name = "AT" -> <<"A", "T">> [] name = "BE" -> <<"B", "E">>
      [] name = "BG" -> <<"B", "G">> [] name = "CY" -> <<"C", "Y">>
      [] name = "CZ" -> <<"C", "Z">> [] name = "DE" -> <<"D", "E">>
      [] name = "DK" -> <<"D", "K">> [] name = "EE" -> <<"E", "E">>
      [] name = "EL" -> <<"E", "L">> [] name = "ES" -> <<"E", "S">>
      [] name = "FI" -> <<"F", "I">> [] name = "FR" -> <<"F", "R">>
      [] name = "GB" -> <<"G", "B">> [] name = "HR" -> <<"H", "R">>
      [] name = "HU" -> <<"H", "U">> [] name = "IE" -> <<"I", "E">>
      [] name = "IT" -> <<"I", "T">> [] name = "LT" -> <<"L", "T">>
      [] name = "LU" -> <<"L", "U">> [] name = "LV" -> <<"L", "V">>
      [] name = "MT" -> <<"M", "T">> [] name = "NL" -> <<"N", "L">>
      [] name = "PL" -> <<"P", "L">> [] name = "PT" -> <<"P", "T">>
      [] name = "RO" -> <<"R", "O">> [] name = "SE" -> <<"S", "E">>
      [] name = "SI" -> <<"S", "I">> [] name = "SK" -> <<"S", "K">>

FormatCountries == {FormatKey(name) : name \in DOMAIN VAT_FORMATS}

\* VAT_FORMATS[country_code] for a country code given as characters
FormatOf(cc) == VAT_FORMATS[CHOOSE name \in DOMAIN VAT_FORMATS : FormatKey(name) = cc]

\* the atoms consume the whole of s
RECURSIVE MatchAtoms(_, _)
MatchAtoms(atoms, s) ==
    IF atoms = <<>> THEN s = <<>>
    ELSE LET a == Head(atoms) IN
         \E k \in a.lo..a.hi :
            /\ k <= Len(s)
            /\ \A i \in 1..k : s[i] \in a.cls
            /\ MatchAtoms(Tail(atoms), SubSeq(s, k + 1, Len(s)))

\* re.match(pattern, s) for an anchored pattern (s carries no trailing newline:
\* the callers strip it)
ReMatch(pattern, s) == \E alt \in pattern : MatchAtoms(alt, s)

(***************************************************************************)
(* ExcelProcessor.validate_vat_number                                      *)
(***************************************************************************)
\* a suspicion reason: the kind of message and the values formatted into it
Reason(kind, n, s) == [kind |-> kind, n |-> n, s |-> s]

\* Python's None as a reason
NoReason == Reason("None", 0, <<>>)

\* re.search(r'(\d)\1{3,}', v): the positions where a digit is followed by
\* three more of the same digit
RepeatStarts(v) ==
    {i \in 1..(Len(v) - 3) :
        /\ v[i] \in Digit
        /\ v[i + 1] = v[i] /\ v[i + 2] = v[i] /\ v[i + 3] = v[i]}

\* len(repeat_pattern.group(0)): the greedy run of the digit from position i
RunLength(v, i) ==
    CHOOSE n \in 1..Len(v) :
        /\ i + n - 1 <= Len(v)
        /\ \A j \in i..(i + n - 1) : v[j] = v[i]
        /\ (i + n <= Len(v) => v[i + n] # v[i])

Ascending == <<"0", "1", "2", "3", "4", "5", "6", "7", "8", "9", "0">>

Descending == <<"9", "8", "7", "6", "5", "4", "3", "2", "1", "0", "9">>

\* the windows vat_number[i:i+5] of the loop that are sequential digits
SequentialStarts(v) ==
    {i \in 1..(Len(v) - 4) :
        LET w == SubSeq(v, i, i + 4) IN
        IsDigitStr(w) /\ (Contains(Ascending, w) \/ Contains(Descending, w))}

Min(S) == CHOOSE x \in S : \A y \in S : x <= y

Verdict(ok, reason) == [is_valid |-> ok, reason |-> reason]

\* a country code without a pattern fails the format check
FormatCheck_UnknownFails(cc, v) ==
    IF cc \notin FormatCountries \/ ~ReMatch(FormatOf(cc), v)
    THEN Verdict(FALSE, Reason("format", 0, cc))
    ELSE Verdict(TRUE, NoReason)

\* the country-format check of validate_vat_number
FormatCheck(cc, v) ==
    IF cc \in FormatCountries /\ ~ReMatch(FormatOf(cc), v)
    THEN Verdict(FALSE, Reason("format", 0, cc))
    ELSE Verdict(TRUE, NoReason)

\* the check with {4,} for {3,}: five or more in a row
HasRepeat_FiveOrMore(v) ==
    \E i \in RepeatStarts(v) : i + 4 <= Len(v) /\ v[i + 4] = v[i]

\* the repeated-digit check of validate_vat_number
HasRepeat(v) == RepeatStarts(v) # {}

\* the short check with the length limit of a full number
IsShort_UpToEight(v) == Len(v) <= 8 /\ IsDigitStr(v)

\* the suspiciously-short check of validate_vat_number
IsShort(v) == Len(v) < 5 /\ IsDigitStr(v)

validate_vat_number(country_code, vat_number) ==
    IF country_code = <<>> \/ vat_number = <<>>
    THEN Verdict(FALSE, Reason("missing", 0, <<>>))
    ELSE
    LET cc == Upper(country_code)
        v  == Strip(vat_number)
    IN  IF HasRepeat(v)
        THEN LET i == Min(RepeatStarts(v)) IN
             Verdict(FALSE, Reason("repeating", RunLength(v, i), <<v[i]>>))
        ELSE IF SequentialStarts(v) # {}
        THEN LET i == Min(SequentialStarts(v)) IN
             Verdict(FALSE, Reason("sequential", 0, SubSeq(v, i, i + 4)))
        ELSE IF IsDigitStr(v) /\ Cardinality(Range(v)) = 1
        THEN Verdict(FALSE, Reason("all same", 0, <<v[1]>>))
        ELSE IF IsShort(v)
        THEN Verdict(FALSE, Reason("short", Len(v), <<>>))
        ELSE FormatCheck(cc, v)

(***************************************************************************)
(* Numbers and their text                                                  *)
(***************************************************************************)
DigitValue(c) == (CHOOSE i \in DOMAIN DigitChars : DigitChars[i] = c) - 1

\* int(s) for a string of digits ('' counts 0)
RECURSIVE DigitsValue(_)
DigitsValue(s) ==
    IF s = <<>> THEN 0
    ELSE 10 * DigitsValue(SubSeq(s, 1, Len(s) - 1)) + DigitValue(s[Len(s)])

\* str(n) for an integer n >= 0
RECURSIVE NatStr(_)
NatStr(n) ==
    IF n < 10 THEN <<DigitChars[n + 1]>>
    ELSE NatStr(n \div 10) \o <<DigitChars[(n % 10) + 1]>>

Abs(x) == IF x < 0 THEN -x ELSE x

\* round(x, 2) on an amount in thousandths: the nearest multiple of 10, an
\* exact tie going to the even hundredth
Round2(m) ==
    LET a == Abs(m)
        q == a \div 10
        r == a % 10
        up == r > 5 \/ (r = 5 /\ q % 2 = 1)
        v == 10 * (IF up THEN q + 1 ELSE q)
    IN  IF m < 0 THEN -v ELSE v

\* float(text): [ok, value] for sign, digits and at most one '.', the value
\* in thousandths; anything else raises ValueError (ok = FALSE)
ParseFloat(text) ==
    LET t    == Strip(text)
        neg  == t # <<>> /\ t[1] = "-"
        body == IF t # <<>> /\ t[1] \in {"-", "+"} THEN Tail(t) ELSE t
        dots == {i \in DOMAIN body : body[i] = "."}
        ip   == IF dots = {} THEN body ELSE SubSeq(body, 1, Min(dots) - 1)
        fp   == IF dots = {} THEN <<>> ELSE SubSeq(body, Min(dots) + 1, Len(body))
        ok   == /\ Cardinality(dots) <= 1
                /\ Len(ip) + Len(fp) > 0
                /\ \A i \in DOMAIN ip : ip[i] \in Digit
                /\ \A i \in DOMAIN fp : fp[i] \in Digit
                /\ Len(fp) <= 3
        mag  == 1000 * DigitsValue(ip)
                + DigitsValue(fp \o [i \in 1..(3 - Len(fp)) |-> "0"])
    IN  IF ok THEN [ok |-> TRUE, value |-> IF neg THEN -mag ELSE mag]
        ELSE [ok |-> FALSE, value |-> 0]

(***************************************************************************)
(* Spreadsheet cells: NaN, a number (amount column) or a text              *)
(***************************************************************************)
NaN == [kind |-> "nan", num |-> 0, text |-> <<>>]

Text(t) == [kind |-> "str", num |-> 0, text |-> t]

Num(m) == [kind |-> "num", num |-> m, text |-> <<>>]

\* a date cell, read as a Timestamp: float() of it raises TypeError
Date(t) == [kind |-> "date", num |-> 0, text |-> t]

\* pd.isna(cell)
IsNa(cell) == cell.kind = "nan"

\* str(cell) of a text cell; str(nan) is 'nan'
StrOf(cell) == IF IsNa(cell) THEN <<"n", "a", "n">> ELSE cell.text

\* str(cell) if not pd.isna(cell) else ''
StrOrEmpty(cell) == IF IsNa(cell) THEN <<>> ELSE cell.text

(***************************************************************************)
(* sorted() and ", ".join() on strings                                     *)
(***************************************************************************)
\* the characters of the model in code-point order
CodeOrder ==
    <<"\t", "\n", "\r", " ", "\"", ",", "-", ".", "/">> \o DigitChars
    \o <<":", ";">> \o UpperChars \o LowerChars

CharCode(c) == CHOOSE i \in DOMAIN CodeOrder : CodeOrder[i] = c

\* a < b for Python strings
RECURSIVE StrLess(_, _)
StrLess(a, b) ==
    IF b = <<>> THEN FALSE
    ELSE IF a = <<>> THEN TRUE
    ELSE IF Head(a) = Head(b) THEN StrLess(Tail(a), Tail(b))
    ELSE CharCode(Head(a)) < CharCode(Head(b))

\* sorted(S) for a set of strings
RECURSIVE Sorted(_)
Sorted(S) ==
    IF S = {} THEN <<>>
    ELSE LET m == CHOOSE x \in S : \A y \in S \ {x} : StrLess(x, y)
         IN  <<m>> \o Sorted(S \ {m})

\* sep.join(ss)
RECURSIVE Join(_, _)
Join(ss, sep) ==
    IF ss = <<>> THEN <<>>
    ELSE IF Len(ss) = 1 THEN ss[1]
    ELSE ss[1] \o sep \o Join(Tail(ss), sep)

(***************************************************************************)
(* ExcelProcessor.map_columns                                              *)
(***************************************************************************)
\* expected_cols, in the order of column_mapping and col_positions
expected_cols ==
    <<"line", "customer", "country_code", "vat_number", "amount", "transaction_type">>

\* column_mapping: the accepted header names of each field (headers arrive
\* stripped and lower-cased from load_data)
possible_names ==
    [line |-> {"line", "line number", "row", "row number", "#"},
     customer |-> {"customer", "customer number", "customer no", "customer id",
                   "customer code", "client number"},
     country_code |-> {"country", "country code", "country indicator",
                       "country_indicator"},
     vat_number |-> {"vat", "vat number", "vat no", "customer's vat number",
                     "customer vat"},
     amount |-> {"amount", "value", "eur", "euro", "value of supplies",
                 "value of supplies eur"},
     transaction_type |-> {"type", "transaction type", "service type",
                           "other services"}]

\* the first loop of map_columns: the first column carrying an accepted name
NameMatches(cols, f) == {i \in DOMAIN cols : cols[i] \in possible_names[f]}

MapByName(cols) ==
    [f \in {g \in Range(expected_cols) : NameMatches(cols, g) # {}} |->
        cols[Min(NameMatches(cols, f))]]

missing_cols(mapping) ==
    SelectSeq(expected_cols, LAMBDA f : f \notin DOMAIN mapping)

\* the positional fallback needs at least this many columns
FallbackColumns == 6

\* the fallback: field number pos of expected_cols takes column pos, unless
\* the field is mapped already
MapByPosition(cols, mapping) ==
    [f \in Range(expected_cols) |->
        IF f \in DOMAIN mapping THEN mapping[f]
        ELSE cols[CHOOSE pos \in DOMAIN expected_cols : expected_cols[pos] = f]]

map_columns(cols) ==
    LET mapping == MapByName(cols) IN
    IF missing_cols(mapping) # <<>> /\ Len(cols) >= FallbackColumns
    THEN MapByPosition(cols, mapping)
    ELSE mapping

\* the warning map_columns appends
MapWarnings(cols) ==
    IF missing_cols(MapByName(cols)) # <<>>
    THEN <<[msg |-> "Missing expected columns", fields |-> missing_cols(MapByName(cols))]>>
    ELSE <<>>

required_fields == <<"amount", "vat_number">>

\* only the amount is looked for
missing_fields_AmountOnly(column_map) ==
    SelectSeq(<<"amount">>, LAMBDA f : f \notin DOMAIN column_map)

missing_fields(column_map) ==
    SelectSeq(required_fields, LAMBDA f : f \notin DOMAIN column_map)

(***************************************************************************)
(* ExcelProcessor.extract_country_code                                     *)
(***************************************************************************)
\* re.match(r'^([A-Z]{2})([A-Z0-9]+)$', s)
HasCountryPrefix(s) ==
    /\ Len(s) >= 3
    /\ s[1] \in UpperLetter /\ s[2] \in UpperLetter
    /\ \A i \in 3..Len(s) : s[i] \in AlphaNum

extract_country_code(vat) ==
    IF vat = <<>> THEN [cc |-> <<>>, vat |-> <<>>]
    ELSE LET v == Upper(Strip(vat))
             packed == RemoveChar(v, " ")
         IN  IF HasCountryPrefix(packed)
             THEN [cc |-> SubSeq(packed, 1, 2), vat |-> SubSeq(packed, 3, Len(packed))]
             ELSE [cc |-> <<>>, vat |-> v]

(***************************************************************************)
(* ExcelProcessor.process_data: what one iteration of the row loop derives *)
(* from the row                                                            *)
(***************************************************************************)
services_tokens ==
    {<<"1">>,
     <<"y", "e", "s">>,
     <<"y">>,
     <<"t", "r", "u", "e">>,
     <<"s">>,
     <<"s", "e", "r", "v", "i", "c", "e">>,
     <<"o", "t", "h", "e", "r", " ", "s", "e", "r", "v", "i", "c", "e", "s">>,
     <<"o", "t", "h", "e", "r", " ", "s", "e", "r", "v", "i", "c", "e">>,
     <<"s", "e", "r", "v", "i", "c", "e", "s">>}

goods_tokens ==
    {<<"0">>,
     <<"n", "o">>,
     <<"n">>,
     <<"f", "a", "l", "s", "e">>,
     <<"l">>,
     <<"g", "o", "o", "d", "s">>,
     <<"g", "o", "o", "d">>,
     <<"s", "u", "p", "p", "l", "y">>,
     <<"s", "u", "p", "p", "l", "i", "e", "s">>}

TotalWord == <<"t", "o", "t", "a", "l">>

\* a message of self.errors or self.warnings: the fixed text, the row it
\* names and the value formatted into it
Msg(msg, line, detail) == [msg |-> msg, line |-> line, detail |-> detail]

\* row[column_map[f]]
Cell(row, column_map, f) == row[column_map[f]]

\* line_number: the 1-based position, or the value of the line column
LineNumber(row, i, column_map) ==
    IF "line" \in DOMAIN column_map /\ ~IsNa(Cell(row, column_map, "line"))
    THEN StrOf(Cell(row, column_map, "line"))
    ELSE NatStr(i + 1)

Customer(row, column_map) ==
    IF "customer" \in DOMAIN column_map
    THEN StrOrEmpty(Cell(row, column_map, "customer"))
    ELSE <<>>

\* extract_country_code on the VAT cell
Extracted(row, column_map) ==
    IF "vat_number" \in DOMAIN column_map
    THEN extract_country_code(StrOrEmpty(Cell(row, column_map, "vat_number")))
    ELSE [cc |-> <<>>, vat |-> <<>>]

\* the country code: the prefix of the VAT cell, else the dedicated column
CountryCode(row, column_map) ==
    IF Extracted(row, column_map).cc # <<>> THEN Extracted(row, column_map).cc
    ELSE IF "country_code" \in DOMAIN column_map
    THEN StrOrEmpty(Cell(row, column_map, "country_code"))
    ELSE <<>>

\* float(amount_val) raises an exception that is no ValueError: the cell is
\* neither a number nor a text
AmountRaises(row, column_map) ==
    /\ "amount" \in DOMAIN column_map
    /\ Cell(row, column_map, "amount").kind = "date"

\* the amount: [ok, value]; ok = FALSE when float() fails on the cell and on
\* the cell with ',' replaced by '.'
Amount(row, column_map) ==
    IF "amount" \notin DOMAIN column_map THEN [ok |-> TRUE, value |-> 0]
    ELSE LET c == Cell(row, column_map, "amount") IN
         IF IsNa(c) THEN [ok |-> TRUE, value |-> 0]
         ELSE IF c.kind = "num" THEN [ok |-> TRUE, value |-> c.num]
         ELSE IF ParseFloat(c.text).ok THEN ParseFloat(c.text)
         ELSE ParseFloat(ReplaceChar(c.text, ",", "."))

\* the loop body raises on the row and the handler of the loop takes over
RowFails(row, column_map) == AmountRaises(row, column_map)

TransactionType(row, column_map) ==
    IF "transaction_type" \in DOMAIN column_map
       /\ ~IsNa(Cell(row, column_map, "transaction_type"))
    THEN LET type_text == Lower(Strip(StrOf(Cell(row, column_map, "transaction_type")))) IN
         IF type_text \in services_tokens THEN "S"
         ELSE IF type_text \in goods_tokens THEN "L"
         ELSE "L"
    ELSE "L"

\* 'total' in str(cell).strip().lower()
MentionsTotal(cell) == Contains(Lower(Strip(StrOf(cell))), TotalWord)

IsTotalLine(row, column_map) ==
    \/ "line" \in DOMAIN column_map /\ MentionsTotal(Cell(row, column_map, "line"))
    \/ "customer" \in DOMAIN column_map /\ MentionsTotal(Cell(row, column_map, "customer"))

IsBlankVat(vat_number) == vat_number = <<>> \/ Strip(vat_number) = <<>>

\* the validation of the row: run only for a row that is neither blank nor total
RowVerdict(is_blank_vat, is_total_line, country_code, vat_number) ==
    IF ~is_blank_vat /\ ~is_total_line
    THEN validate_vat_number(country_code, vat_number)
    ELSE Verdict(TRUE, NoReason)

\* vat_key = f"{country_code}:{vat_number}"
VatKey(country_code, vat_number) == country_code \o <<":">> \o vat_number

\* the blank test without `and not is_total_line`
GoesToBlank_TotalToo(is_blank_vat, is_total_line) == is_blank_vat

\* the row goes to blank_vat_rows
GoesToBlank(is_blank_vat, is_total_line) == is_blank_vat /\ ~is_total_line

\* a negative amount counts as missing too
IsInvalid_NegativeToo(country_code, amount) == country_code = <<>> \/ amount <= 0

\* the row is skipped for missing essential data
IsInvalid(country_code, amount) == country_code = <<>> \/ amount = 0

\* which way the loop body leaves the row
Branch(amount_ok, is_blank_vat, is_total_line, country_code, amount) ==
    IF ~amount_ok THEN "skipped"
    ELSE IF GoesToBlank(is_blank_vat, is_total_line) THEN "blank"
    ELSE IF is_total_line THEN "total"
    ELSE IF IsInvalid(country_code, amount) THEN "invalid"
    ELSE "valid"

\* the transaction dict of the row, with what the loop keeps beside it
RowRecord(line_number, customer, country_code, vat_number, amt, transaction_type, is_total_line, is_blank_vat, verdict) ==
    [branch |-> Branch(amt.ok, is_blank_vat, is_total_line, country_code, amt.value),
     raw_country_code |-> country_code,
     raw_vat_number |-> vat_number,
     vat_key |-> VatKey(country_code, vat_number),
     transaction |->
        [line_number |-> line_number,
         customer |-> customer,
         country_code |-> Upper(country_code),
         vat_number |-> RemoveChar(vat_number, " "),
         amount |-> amt.value,
         transaction_type |-> transaction_type,
         is_blank_vat |-> is_blank_vat /\ ~is_total_line,
         is_total_line |-> is_total_line,
         is_suspicious |-> ~verdict.is_valid,
         suspicion_reason |-> verdict.reason]]

\* the blank check and the validation of the extracted fields
Classify(line_number, customer, country_code, vat_number, amt, transaction_type, is_total_line) ==
    RowRecord(line_number, customer, country_code, vat_number, amt, transaction_type,
              is_total_line, IsBlankVat(vat_number),
              RowVerdict(IsBlankVat(vat_number), is_total_line, country_code, vat_number))

\* what is left of row number i (0-based) when the loop body raises: nothing
\* but the row number of the message
FailedRow(i) ==
    [branch |-> "error",
     raw_country_code |-> <<>>,
     raw_vat_number |-> <<>>,
     vat_key |-> <<>>,
     transaction |->
        [line_number |-> NatStr(i + 1),
         customer |-> <<>>,
         country_code |-> <<>>,
         vat_number |-> <<>>,
         amount |-> 0,
         transaction_type |-> "L",
         is_blank_vat |-> FALSE,
         is_total_line |-> FALSE,
         is_suspicious |-> FALSE,
         suspicion_reason |-> NoReason]]

\* everything the loop body derives from row number i (0-based)
Extract(row, i, column_map) ==
    IF RowFails(row, column_map) THEN FailedRow(i) ELSE
    Classify(LineNumber(row, i, column_map), Customer(row, column_map),
             CountryCode(row, column_map), Extracted(row, column_map).vat,
             Amount(row, column_map), TransactionType(row, column_map),
             IsTotalLine(row, column_map))

(***************************************************************************)
(* ExcelProcessor.process_data: the aggregation                            *)
(***************************************************************************)
\* the default entry of aggregated_by_vat, under its key
NewEntry(key) ==
    [key |-> key,
     country_code |-> <<>>,
     vat_number |-> <<>>,
     customer_numbers |-> {},
     amount |-> 0,
     transaction_type |-> "",
     line_numbers |-> {},
     is_valid |-> TRUE,
     is_suspicious |-> FALSE,
     suspicion_reason |-> NoReason]

\* the type of the last row wins
MergeType_LastWins(existing, transaction_type) == transaction_type

\* prefer Services (S) if any transaction is services
MergeType(existing, transaction_type) ==
    IF transaction_type = "S" THEN "S"
    ELSE IF existing = "" THEN transaction_type
    ELSE existing

\* = for +=
MergeAmount_Overwrite(existing, amount) == amount

\* only the first row of a key counts
MergeAmount_KeepFirst(existing, amount) == IF existing = 0 THEN amount ELSE existing

MergeAmount(existing, amount) == existing + amount

\* the entry after the row e (an Extract) is merged into it
MergeEntry(entry, e) ==
    [entry EXCEPT
        !.country_code = e.raw_country_code,
        !.vat_number = e.raw_vat_number,
        !.customer_numbers = @ \cup {e.transaction.customer},
        !.amount = MergeAmount(@, e.transaction.amount),
        !.line_numbers = @ \cup {e.transaction.line_number},
        !.transaction_type = MergeType(@, e.transaction.transaction_type),
        !.is_suspicious = IF e.transaction.is_suspicious THEN TRUE ELSE @,
        !.suspicion_reason =
            IF e.transaction.is_suspicious THEN e.transaction.suspicion_reason ELSE @]

KeyIndex(aggs, key) == {k \in DOMAIN aggs : aggs[k].key = key}

\* aggregated_by_vat[vat_key] updated: a key seen for the first time is
\* inserted at the end (a dict keeps insertion order)
MergeRow(aggs, e) ==
    IF KeyIndex(aggs, e.vat_key) = {}
    THEN Append(aggs, MergeEntry(NewEntry(e.vat_key), e))
    ELSE [k \in DOMAIN aggs |->
            IF aggs[k].key = e.vat_key THEN MergeEntry(aggs[k], e) ELSE aggs[k]]

\* multiple_customers of an aggregated record
MultipleCustomers(customer_numbers) == Cardinality(customer_numbers) > 1

CommaSpace == <<",", " ">>

\* one record of aggregated_transactions
AggregatedRecord(entry) ==
    [country_code |-> entry.country_code,
     vat_number |-> entry.vat_number,
     amount |-> Round2(entry.amount),
     transaction_type |-> entry.transaction_type,
     customer |-> Join(Sorted({c \in entry.customer_numbers : c # <<>>}), CommaSpace),
     line_numbers |-> Join(Sorted(entry.line_numbers), CommaSpace),
     multiple_customers |-> MultipleCustomers(entry.customer_numbers),
     is_blank_vat |-> FALSE,
     is_suspicious |-> entry.is_suspicious,
     suspicion_reason |-> entry.suspicion_reason]

AggregatedTransactions(aggs) == [k \in DOMAIN aggs |-> AggregatedRecord(aggs[k])]

Metrics(rows, valid, blank, suspicious, invalid, aggregated, amount) ==
    [total_rows |-> rows,
     valid_transactions |-> Len(valid),
     blank_vat_entries |-> Len(blank),
     suspicious_vat_entries |-> Len(suspicious),
     invalid_rows |-> Len(invalid),
     combined_transactions |-> Len(aggregated),
     total_amount |-> Round2(amount)]

(***************************************************************************)
(* The sheets and rows the pipeline is run on                              *)
(***************************************************************************)
\* a sheet is its columns in order: the cleaned header and what the column holds
Column(name, holds) == [name |-> name, holds |-> holds]

NamedSheet ==
    <<Column("line", "line"), Column("customer", "customer"),
      Column("country", "country_code"), Column("vat", "vat_number"),
      Column("amount", "amount"), Column("type", "transaction_type")>>

\* only the required columns; the VAT cells carry the country prefix
CombinedSheet == <<Column("vat number", "combined_vat"), Column("value", "amount")>>

\* no VAT column at all
BrokenSheet == <<Column("customer", "customer"), Column("amount", "amount")>>

\* six columns whose headers no field accepts: mapped by position
PositionalSheet ==
    <<Column("nr", "line"), Column("kunde", "customer"),
      Column("land", "country_code"), Column("ust-id", "vat_number"),
      Column("betrag", "amount"), Column("art", "transaction_type")>>

Sheets == {NamedSheet, CombinedSheet, BrokenSheet, PositionalSheet}

GoodVat == <<"1", "3", "5", "7", "9", "2", "4", "6", "8">>

\* the cell a plain row has in a column
BaseCell(holds) ==
    CASE holds = "line" -> NaN
      [] holds = "customer" -> Text(<<"A">>)
      [] holds = "country_code" -> Text(<<"D", "E">>)
      [] holds = "vat_number" -> Text(GoodVat)
      [] holds = "combined_vat" -> Text(<<"D", "E">> \o GoodVat)
      [] holds = "amount" -> Num(100000)
      [] holds = "transaction_type" -> NaN

\* the other cells a column may hold
OtherCells(holds) ==
    CASE holds = "line" -> {Text(<<"T", "o", "t", "a", "l">>)}
      [] holds = "customer" ->
            {NaN, Text(<<"B">>), Text(<<"S", "u", "b", " ", "T", "o", "t", "a", "l">>)}
      [] holds = "country_code" -> {NaN, Text(<<"d", "e">>)}
      [] holds = "vat_number" ->
            {NaN, Text(<<"D", "E">> \o GoodVat), Text(<<"1", "3", "5", " ", "7", "9", "2", "4", "6", "8">>),
             Text(<<"1", "1", "1", "1", "1", "1", "1", "1", "1">>), Text(<<"1", ":", "2">>)}
      [] holds = "combined_vat" ->
            {NaN, Text(GoodVat), Text(<<"d", "e", " ", "1", "3", "5", "7", "9", "2", "4", "6", "8">>),
             Text(<<"D", "E", "1", "1", "1", "1", "1", "1", "1", "1", "1">>)}
      [] holds = "amount" ->
            {Num(0), Num(50004), Num(-20000), Text(<<"a", "b", "c">>),
             Text(<<"1", "2", ",", "5">>)}
      [] holds = "transaction_type" ->
            {Text(<<"S", "e", "r", "v", "i", "c", "e", "s">>)}

Names(sh) == {sh[i].name : i \in DOMAIN sh}

Holds(sh, name) == sh[CHOOSE i \in DOMAIN sh : sh[i].name = name].holds

BaseRow(sh) == [n \in Names(sh) |-> BaseCell(Holds(sh, n))]

\* rows that differ from the plain row in one column
OneOff(sh) ==
    {[BaseRow(sh) EXCEPT ![p[1]] = p[2]] :
        p \in UNION {{n} \X OtherCells(Holds(sh, n)) : n \in Names(sh)}}

\* rows that differ in more columns: a country code and a VAT number that
\* contain the key separator, and total lines with a blank or a repeated VAT;
\* on the sheet of two columns, a row whose amount cell is a date
TwoOff(sh) ==
    IF sh = CombinedSheet
    THEN {[BaseRow(sh) EXCEPT !["value"] = Date(<<"2", "0", "2", "3", "-", "0", "9", "-", "0", "1">>)]}
    ELSE IF sh # NamedSheet THEN {}
    ELSE {[BaseRow(sh) EXCEPT !["country"] = Text(<<"D", "E", ":", "1">>),
                                 !["vat"] = Text(<<"2">>)],
          [BaseRow(sh) EXCEPT !["customer"] = Text(<<"S", "u", "b", " ", "T", "o", "t", "a", "l">>),
                                 !["vat"] = NaN],
          [BaseRow(sh) EXCEPT !["line"] = Text(<<"T", "o", "t", "a", "l">>),
                                 !["country"] = NaN,
                                 !["vat"] = Text(<<"1", "1", "1", "1", "1", "1", "1", "1", "1">>)]}

\* the sheet mapped by position has the plain row, a row without VAT
\* number and a row with a services type
FewOff(sh) ==
    {[BaseRow(sh) EXCEPT ![n] = NaN] : n \in {"ust-id"} \cap Names(sh)}
    \cup {[BaseRow(sh) EXCEPT ![n] = Text(<<"s">>)] : n \in {"art"} \cap Names(sh)}

RowInputs(sh) ==
    IF sh = PositionalSheet THEN {BaseRow(sh)} \cup FewOff(sh)
    ELSE {BaseRow(sh)} \cup OneOff(sh) \cup TwoOff(sh)

\* the most rows a sheet has
MaxRows == 3

(***************************************************************************)
(* State                                                                   *)
(***************************************************************************)
VARIABLES
    pc,                  \* where process_data stands: start, rows, done, failed
    sheet,               \* the spreadsheet behind file_content
    columns,             \* self.data.columns after load_data
    column_map,          \* the mapping returned by map_columns
    data,                \* the rows of self.data iterated so far
    total_rows,
    valid_transactions,
    blank_vat_rows,
    invalid_rows,
    suspicious_vat_rows,
    total_amount,
    aggregated_by_vat,
    errors,              \* self.errors
    warnings,            \* self.warnings
    result,              \* what process_data returned
    vcall,               \* a call of validate_vat_number: arguments and return
    gen,                 \* a VIESGenerator
    output,              \* what generate_file last returned
    rerun,               \* a second run of process_data: the rows of the file
                         \* and what the first run returned
    uploads,             \* UPLOADS: session id -> generator
    edited_vats,         \* EDITED_VATS: session id -> index -> edited entry
    files,               \* the temporary directory: file name -> content
    req,                 \* the generate requests under way, one per thread
    upload_reply,        \* what upload_excel answered
    edit_reply           \* what edit_vat answered

process_vars ==
    <<pc, sheet, columns, column_map, data, total_rows, valid_transactions,
      blank_vat_rows, invalid_rows, suspicious_vat_rows, total_amount,
      aggregated_by_vat, errors, warnings, result>>

\* the state outside the ExcelProcessor run
app_vars == <<uploads, edited_vats, files, req, upload_reply, edit_reply>>

other_vars == <<vcall, gen, output, rerun, app_vars>>

vars == <<process_vars, other_vars>>

\* the empty dict returned as metrics by a failed run
NoMetrics == <<>>

NotReturned ==
    [returned |-> FALSE, is_none |-> TRUE, aggregated_transactions |-> <<>>,
     metrics |-> NoMetrics]

ReturnedNone ==
    [returned |-> TRUE, is_none |-> TRUE, aggregated_transactions |-> <<>>,
     metrics |-> NoMetrics]

Returned(aggregated, metrics) ==
    [returned |-> TRUE, is_none |-> FALSE, aggregated_transactions |-> aggregated,
     metrics |-> metrics]

\* no call of validate_vat_number under way
NoCall ==
    [country_code |-> <<>>, vat_number |-> <<>>, returned |-> FALSE,
     verdict |-> Verdict(TRUE, NoReason)]

\* no VIESGenerator constructed
NoGenerator ==
    [constructed |-> FALSE, company_name |-> <<>>, tax_number |-> <<>>,
     reporting_period |-> <<>>, transactions |-> <<>>]

\* generate_file not called
NoOutput == [generated |-> FALSE, raised |-> FALSE, content |-> <<>>]

\* process_data not called a second time
NoRerun == [active |-> FALSE, loaded |-> FALSE, rows |-> <<>>, first |-> NotReturned]

\* no reply of a request handler yet
NoReply == [kind |-> "none", session_id |-> 0, detail |-> <<>>]

\* the web application not started: empty stores, no request
AppIdle ==
    /\ uploads = <<>>
    /\ edited_vats = <<>>
    /\ files = <<>>
    /\ req = <<>>
    /\ upload_reply = NoReply
    /\ edit_reply = NoReply

\* ExcelProcessor.__init__ with the file content of some sheet
Init ==
    /\ rerun = NoRerun
    /\ AppIdle
    /\ vcall = NoCall
    /\ gen = NoGenerator
    /\ output = NoOutput
    /\ pc = "start"
    /\ sheet \in Sheets
    /\ columns = <<>>
    /\ column_map = <<>>
    /\ data = <<>>
    /\ total_rows = 0
    /\ valid_transactions = <<>>
    /\ blank_vat_rows = <<>>
    /\ invalid_rows = <<>>
    /\ suspicious_vat_rows = <<>>
    /\ total_amount = 0
    /\ aggregated_by_vat = <<>>
    /\ errors = <<>>
    /\ warnings = <<>>
    /\ result = NotReturned

NoDetail == <<>>

\* process_data when load_data fails: read_excel raises with both engines
LoadFails ==
    /\ pc = "start"
    /\ pc' = "failed"
    /\ errors' = errors \o <<Msg("Error loading Excel file", NoDetail, NoDetail),
                             Msg("Could not load Excel data", NoDetail, NoDetail)>>
    /\ result' = ReturnedNone
    /\ UNCHANGED <<sheet, columns, column_map, data, total_rows, valid_transactions,
                   blank_vat_rows, invalid_rows, suspicious_vat_rows, total_amount,
                   aggregated_by_vat, warnings, other_vars>>

\* process_data up to the row loop: load_data, map_columns, required fields
LoadAndMap ==
    /\ pc = "start"
    /\ LET cols == [i \in DOMAIN sheet |-> sheet[i].name]
           mapping == map_columns(cols)
       IN  /\ columns' = cols
           /\ column_map' = mapping
           /\ warnings' = warnings \o MapWarnings(cols)
           /\ IF missing_fields(mapping) # <<>>
              THEN /\ errors' = Append(errors, Msg("Missing required columns", NoDetail,
                                                   missing_fields(mapping)))
                   /\ pc' = "failed"
                   /\ result' = ReturnedNone
              ELSE /\ pc' = "rows"
                   /\ UNCHANGED <<errors, result>>
    /\ UNCHANGED <<sheet, data, total_rows, valid_transactions, blank_vat_rows,
                   invalid_rows, suspicious_vat_rows, total_amount, aggregated_by_vat,
                   other_vars>>

\* the effect of the loop body on the accumulators, e being Extract of the row
Accumulate(row, e) ==
    /\ data' = Append(data, row)
    /\ total_rows' = total_rows + 1
    /\ warnings' =
         IF e.branch = "skipped"
         THEN Append(warnings, Msg("Invalid amount in row", e.transaction.line_number,
                                   StrOf(Cell(row, column_map, "amount"))))
         ELSE warnings
    /\ errors' =
         IF e.branch = "error"
         THEN Append(errors, Msg("Error processing row", e.transaction.line_number,
                                 NoDetail))
         ELSE errors
    /\ blank_vat_rows' =
         IF e.branch = "blank" THEN Append(blank_vat_rows, e.transaction)
         ELSE blank_vat_rows
    /\ suspicious_vat_rows' =
         IF e.branch \in {"total", "invalid", "valid"} /\ e.transaction.is_suspicious
         THEN Append(suspicious_vat_rows, e.transaction) ELSE suspicious_vat_rows
    /\ invalid_rows' =
         IF e.branch = "invalid"
         THEN Append(invalid_rows,
                     [line_number |-> e.transaction.line_number,
                      reason |-> "Missing country code or zero amount"])
         ELSE invalid_rows
    /\ valid_transactions' =
         IF e.branch = "valid" THEN Append(valid_transactions, e.transaction)
         ELSE valid_transactions
    /\ total_amount' =
         IF e.branch = "valid" THEN total_amount + e.transaction.amount
         ELSE total_amount
    /\ aggregated_by_vat' =
         IF e.branch = "valid" THEN MergeRow(aggregated_by_vat, e)
         ELSE aggregated_by_vat

\* one iteration of `for i, row in self.data.iterrows()`
ProcessRow(row) ==
    /\ pc = "rows"
    /\ Len(data) < MaxRows
    /\ Accumulate(row, Extract(row, Len(data), column_map))
    /\ UNCHANGED <<pc, sheet, columns, column_map, result, other_vars>>

\* process_data after the loop: the aggregated list, the metrics, the return
Finish ==
    /\ pc = "rows"
    /\ pc' = "done"
    /\ result' = Returned(AggregatedTransactions(aggregated_by_vat),
                          Metrics(total_rows, valid_transactions, blank_vat_rows,
                                  suspicious_vat_rows, invalid_rows,
                                  aggregated_by_vat, total_amount))
    /\ UNCHANGED <<sheet, columns, column_map, data, total_rows, valid_transactions,
                   blank_vat_rows, invalid_rows, suspicious_vat_rows, total_amount,
                   aggregated_by_vat, errors, warnings, other_vars>>

Next ==
    \/ LoadFails
    \/ LoadAndMap
    \/ \E row \in RowInputs(sheet) : ProcessRow(row)
    \/ Finish

Spec == Init /\ [][Next]_vars

(***************************************************************************)
(* process_data called a second time on the same file, by the same         *)
(* processor or by a new one                                               *)
(***************************************************************************)
\* the most rows of a file that is processed twice
MaxRerunRows == 2

\* the accumulators carried over from the run before
LocalsAtEntry_Kept ==
    [total_rows |-> total_rows,
     valid_transactions |-> valid_transactions,
     blank_vat_rows |-> blank_vat_rows,
     invalid_rows |-> invalid_rows,
     suspicious_vat_rows |-> suspicious_vat_rows,
     total_amount |-> total_amount,
     aggregated_by_vat |-> aggregated_by_vat]

\* the local accumulators process_data sets up before the row loop
LocalsAtEntry ==
    [total_rows |-> 0,
     valid_transactions |-> <<>>,
     blank_vat_rows |-> <<>>,
     invalid_rows |-> <<>>,
     suspicious_vat_rows |-> <<>>,
     total_amount |-> 0,
     aggregated_by_vat |-> <<>>]

\* process_data is called again on the file just processed: by the same
\* processor, whose self.errors and self.warnings go on growing, or by a
\* fresh one.  The rows of the file and the first return value are kept.
RunAgain(fresh) ==
    /\ pc \in {"done", "failed"}
    /\ ~rerun.active
    /\ rerun' = [active |-> TRUE, loaded |-> columns # <<>>, rows |-> data,
                 first |-> result]
    /\ pc' = "start"
    /\ columns' = <<>>
    /\ column_map' = <<>>
    /\ data' = <<>>
    /\ result' = NotReturned
    /\ total_rows' = LocalsAtEntry.total_rows
    /\ valid_transactions' = LocalsAtEntry.valid_transactions
    /\ blank_vat_rows' = LocalsAtEntry.blank_vat_rows
    /\ invalid_rows' = LocalsAtEntry.invalid_rows
    /\ suspicious_vat_rows' = LocalsAtEntry.suspicious_vat_rows
    /\ total_amount' = LocalsAtEntry.total_amount
    /\ aggregated_by_vat' = LocalsAtEntry.aggregated_by_vat
    /\ errors' = IF fresh THEN <<>> ELSE errors
    /\ warnings' = IF fresh THEN <<>> ELSE warnings
    /\ UNCHANGED <<sheet, vcall, gen, output, app_vars>>

\* load_data of a run: the file that could not be read the first time
\* cannot be read the second time either
RerunLoadFails ==
    /\ rerun.active => ~rerun.loaded
    /\ LoadFails

RerunLoadAndMap ==
    /\ rerun.active => rerun.loaded
    /\ LoadAndMap

\* a row of the first run: the file shows its next row
FirstRunRow(row) ==
    /\ ~rerun.active
    /\ Len(data) < MaxRerunRows
    /\ ProcessRow(row)

\* a row of the second run: the same file gives the same rows
SecondRunRow ==
    /\ rerun.active
    /\ Len(data) < Len(rerun.rows)
    /\ ProcessRow(rerun.rows[Len(data) + 1])

\* the end of the row loop: in the second run, after the last row of the file
RerunFinish ==
    /\ rerun.active => Len(data) = Len(rerun.rows)
    /\ Finish

RerunNext ==
    \/ RerunLoadFails
    \/ RerunLoadAndMap
    \/ \E row \in RowInputs(sheet) : FirstRunRow(row)
    \/ SecondRunRow
    \/ RerunFinish
    \/ \E fresh \in BOOLEAN : RunAgain(fresh)

RerunSpec == Init /\ [][RerunNext]_vars

(***************************************************************************)
(* process_data on rows that combine the cases of the classification       *)
(***************************************************************************)
\* the most rows of such a sheet
MaxClassifyRows == 2

\* the cells of a column of NamedSheet: a total marker, an empty country
\* code, an empty and a repeated VAT number, and amounts that are zero,
\* negative, empty, no number and a date
ClassifyCells(holds) ==
    CASE holds = "line" -> {NaN, Text(<<"T", "o", "t", "a", "l">>)}
      [] holds = "country_code" -> {Text(<<"D", "E">>), NaN}
      [] holds = "vat_number" ->
            {Text(GoodVat), NaN, Text(<<"1", "1", "1", "1", "1", "1", "1", "1", "1">>)}
      [] holds = "amount" ->
            {Num(100000), Num(0), Num(-20000), NaN, Text(<<"a", "b", "c">>),
             Date(<<"2", "0", "2", "3", "-", "0", "9", "-", "0", "1">>)}

\* every row of NamedSheet made of these cells
ClassifyRowInputs ==
    {[BaseRow(NamedSheet) EXCEPT !["line"] = l, !["country"] = c, !["vat"] = v, !["amount"] = a] :
        l \in ClassifyCells("line"), c \in ClassifyCells("country_code"),
        v \in ClassifyCells("vat_number"), a \in ClassifyCells("amount")}

\* a file with the headers of NamedSheet is about to be processed
ClassifyInit ==
    /\ Init
    /\ sheet = NamedSheet

\* one iteration of the row loop on such a row
ClassifyRow(row) ==
    /\ Len(data) < MaxClassifyRows
    /\ ProcessRow(row)

ClassifyNext ==
    \/ LoadAndMap
    \/ \E row \in ClassifyRowInputs : ClassifyRow(row)
    \/ Finish

ClassifySpec == ClassifyInit /\ [][ClassifyNext]_vars

(***************************************************************************)
(* map_columns called on its own                                           *)
(***************************************************************************)
\* the most columns of a header row
MaxColumns == 6

\* the header names of the sheets map_columns is run on, as load_data leaves
\* them: names that fields accept (two of them for the amount) and names that
\* no field accepts
HeaderNames == {"amount", "value", "vat", "country", "customer", "x", "y"}

\* self.data.columns: pandas gives every column a name of its own
HeaderInputs ==
    UNION {{h \in [1..n -> HeaderNames] : \A i, j \in 1..n : i # j => h[i] # h[j]} :
             n \in 0..MaxColumns}

\* the data is loaded and map_columns is about to be called
MapInit ==
    /\ rerun = NoRerun
    /\ AppIdle
    /\ vcall = NoCall
    /\ gen = NoGenerator
    /\ output = NoOutput
    /\ pc = "mapping"
    /\ sheet = <<>>
    /\ columns \in HeaderInputs
    /\ column_map = <<>>
    /\ data = <<>>
    /\ total_rows = 0
    /\ valid_transactions = <<>>
    /\ blank_vat_rows = <<>>
    /\ invalid_rows = <<>>
    /\ suspicious_vat_rows = <<>>
    /\ total_amount = 0
    /\ aggregated_by_vat = <<>>
    /\ errors = <<>>
    /\ warnings = <<>>
    /\ result = NotReturned

\* map_columns() returns
MapColumns ==
    /\ pc = "mapping"
    /\ pc' = "mapped"
    /\ column_map' = map_columns(columns)
    /\ warnings' = warnings \o MapWarnings(columns)
    /\ UNCHANGED <<sheet, columns, data, total_rows, valid_transactions, blank_vat_rows,
                   invalid_rows, suspicious_vat_rows, total_amount, aggregated_by_vat,
                   errors, result, other_vars>>

MapNext == MapColumns

MapSpec == MapInit /\ [][MapNext]_vars

(***************************************************************************)
(* validate_vat_number called on its own                                   *)
(***************************************************************************)
\* the pieces VAT numbers are put together from: digits that neither repeat
\* nor run in sequence, letters, a run of four, a sequence of five, a blank
VatBlocks ==
    {<<"1", "3", "5", "7", "9", "2", "4">>, <<"6", "8", "0">>, <<"6", "8">>, <<"0">>,
     <<"U">>, <<"B">>, <<"G", "D">>, <<"B", "0", "1">>,
     <<"1", "1", "1", "1">>, <<"1", "2", "3", "4", "5">>, <<" ">>}

\* the most pieces of a VAT number
MaxBlocks == 3

BlockSeqs == UNION {[1..n -> VatBlocks] : n \in 0..MaxBlocks}

VatInputs == {Concat(bs) : bs \in BlockSeqs}

CountryInputs == FormatCountries \cup {<<>>, <<"X", "X">>, <<"d", "e">>}

\* the ExcelProcessor run left out
ProcessIdle ==
    /\ pc = "idle"
    /\ sheet = <<>>
    /\ columns = <<>>
    /\ column_map = <<>>
    /\ data = <<>>
    /\ total_rows = 0
    /\ valid_transactions = <<>>
    /\ blank_vat_rows = <<>>
    /\ invalid_rows = <<>>
    /\ suspicious_vat_rows = <<>>
    /\ total_amount = 0
    /\ aggregated_by_vat = <<>>
    /\ errors = <<>>
    /\ warnings = <<>>
    /\ result = NotReturned

ValidateInit ==
    /\ ProcessIdle
    /\ rerun = NoRerun
    /\ AppIdle
    /\ gen = NoGenerator
    /\ output = NoOutput
    /\ vcall \in {[NoCall EXCEPT !.country_code = c, !.vat_number = v] :
                    c \in CountryInputs, v \in VatInputs}

\* validate_vat_number(country_code, vat_number) returns
Validate ==
    /\ pc = "idle"
    /\ ~vcall.returned
    /\ vcall' = [vcall EXCEPT !.returned = TRUE,
                              !.verdict = validate_vat_number(vcall.country_code,
                                                              vcall.vat_number)]
    /\ UNCHANGED <<process_vars, gen, output, rerun, app_vars>>

ValidateNext == Validate

ValidateSpec == ValidateInit /\ [][ValidateNext]_vars

(***************************************************************************)
(* VIESGenerator                                                           *)
(***************************************************************************)
\* str.split(sep) for a one-character separator
RECURSIVE Split(_, _)
Split(s, sep) ==
    IF \A i \in DOMAIN s : s[i] # sep THEN <<s>>
    ELSE LET k == Min({i \in DOMAIN s : s[i] = sep})
         IN  <<SubSeq(s, 1, k - 1)>> \o Split(SubSeq(s, k + 1, Len(s)), sep)

\* f"{amount:.2f}".replace('.', ','): sign, whole euros, comma, two digits
FormatAmount(amount) ==
    (IF Round2(amount) < 0 THEN <<"-">> ELSE <<>>)
    \o NatStr((Abs(Round2(amount)) \div 10) \div 100)
    \o <<",">>
    \o <<DigitChars[((Abs(Round2(amount)) \div 10) % 100) \div 10 + 1],
         DigitChars[((Abs(Round2(amount)) \div 10) % 10) + 1]>>

Delimiter == ";"

QuoteChar == "\""

LineTerminator == <<"\r", "\n">>

\* csv.writer with QUOTE_MINIMAL: a field is quoted when it holds the
\* delimiter, the quote character or a character of the line terminator
NeedsQuoting(field) ==
    \E i \in DOMAIN field : field[i] \in {Delimiter, QuoteChar} \cup Range(LineTerminator)

RECURSIVE DoubleQuotes(_)
DoubleQuotes(field) ==
    IF field = <<>> THEN <<>>
    ELSE (IF Head(field) = QuoteChar THEN <<QuoteChar, QuoteChar>> ELSE <<Head(field)>>)
         \o DoubleQuotes(Tail(field))

CsvField(field) ==
    IF NeedsQuoting(field) THEN <<QuoteChar>> \o DoubleQuotes(field) \o <<QuoteChar>>
    ELSE field

\* writer.writerow(fields)
WriteRow(fields) ==
    Join([i \in DOMAIN fields |-> CsvField(fields[i])], <<Delimiter>>) \o LineTerminator

Finanzamt == <<"F", "i", "n", "a", "n", "z", "a", "m", "t">>

\* the header row, the reporting period split into year and month
HeaderRow(g) ==
    WriteRow(<<Finanzamt, g.company_name, g.tax_number,
               Split(g.reporting_period, "-")[2] \o <<"/">>
               \o Split(g.reporting_period, "-")[1]>>)

TransactionRow(t) ==
    WriteRow(<<t.country_code \o t.vat_number, FormatAmount(t.amount), t.transaction_type>>)

RECURSIVE TransactionRows(_)
TransactionRows(ts) ==
    IF ts = <<>> THEN <<>> ELSE TransactionRow(Head(ts)) \o TransactionRows(Tail(ts))

\* the content generate_file returns
FileContent(g) == HeaderRow(g) \o TransactionRows(g.transactions)

\* the VAT number stored as given, blanks included
NewTransaction_KeepBlanks(country_code, vat_number, amount, transaction_type) ==
    [country_code |-> Upper(country_code),
     vat_number |-> vat_number,
     amount |-> Round2(amount),
     transaction_type |-> Upper(transaction_type)]

\* the dict add_transaction appends
NewTransaction(country_code, vat_number, amount, transaction_type) ==
    [country_code |-> Upper(country_code),
     vat_number |-> RemoveChar(vat_number, " "),
     amount |-> Round2(amount),
     transaction_type |-> Upper(transaction_type)]

CompanyInputs == {<<"T", "e", "s", "t", " ", "G", "m", "b", "H">>, <<"M", "e", "i", "e", "r", ";", " ", "S", "o", "h", "n">>, <<"\"", "Q", "\"", " ", "A", "G">>}

TaxInputs == {<<"D", "E", "1", "2", "3">>}

PeriodInputs == {<<"2", "0", "2", "3", "-", "0", "9">>, <<"2", "0", "2", "3">>}

GenCountryInputs == {<<"F", "R">>, <<"e", "s">>}

GenVatInputs == {<<"1", "2", "3", "4", "5", "6", "7", "8", "9", "0", "1">>, <<"B", "1", " ", "2", "3">>, <<"1", ";", "2">>}

GenAmountInputs == {150000, 12346}

GenTypeInputs == {<<"L">>, <<"s">>}

\* the most transactions added to a generator
MaxTransactions == 2

\* VIESGenerator(company_name, tax_number, reporting_period)
GeneratorInit ==
    /\ ProcessIdle
    /\ rerun = NoRerun
    /\ AppIdle
    /\ vcall = NoCall
    /\ output = NoOutput
    /\ gen \in {[constructed |-> TRUE, company_name |-> c, tax_number |-> t,
                 reporting_period |-> p, transactions |-> <<>>] :
                   c \in CompanyInputs, t \in TaxInputs, p \in PeriodInputs}

AddTransaction(country_code, vat_number, amount, transaction_type) ==
    /\ gen.constructed
    /\ Len(gen.transactions) < MaxTransactions
    /\ gen' = [gen EXCEPT !.transactions =
                  Append(@, NewTransaction(country_code, vat_number, amount,
                                           transaction_type))]
    /\ UNCHANGED <<process_vars, vcall, output, rerun, app_vars>>

\* generate_file: the unpacking of the split period raises ValueError unless
\* the period has exactly one '-'
GenerateFile ==
    /\ gen.constructed
    /\ output' = IF Len(Split(gen.reporting_period, "-")) = 2
                 THEN [generated |-> TRUE, raised |-> FALSE, content |-> FileContent(gen)]
                 ELSE [generated |-> FALSE, raised |-> TRUE, content |-> <<>>]
    /\ UNCHANGED <<process_vars, vcall, gen, rerun, app_vars>>

GeneratorNext ==
    \/ \E c \in GenCountryInputs, v \in GenVatInputs, a \in GenAmountInputs,
          t \in GenTypeInputs : AddTransaction(c, v, a, t)
    \/ GenerateFile

GeneratorSpec == GeneratorInit /\ [][GeneratorNext]_vars

(***************************************************************************)
(* ExcelProcessor.create_generator                                         *)
(***************************************************************************)
\* the transaction add_transaction stored (n) with the additional fields
\* create_generator sets on it from the aggregated record t
WithAdditionalFields(n, t) ==
    [country_code |-> n.country_code,
     vat_number |-> n.vat_number,
     amount |-> n.amount,
     transaction_type |-> n.transaction_type,
     customer |-> t.customer,
     line_numbers |-> t.line_numbers,
     multiple_customers |-> t.multiple_customers]

\* the transaction of the generator for the aggregated record t
GeneratorTransaction(t) ==
    WithAdditionalFields(NewTransaction(t.country_code, t.vat_number, t.amount,
                                        <<t.transaction_type>>), t)

\* create_generator(company_name, tax_number, reporting_period, data)
create_generator(company_name, tax_number, reporting_period, aggregated) ==
    [constructed |-> TRUE,
     company_name |-> company_name,
     tax_number |-> tax_number,
     reporting_period |-> reporting_period,
     transactions |-> [k \in DOMAIN aggregated |-> GeneratorTransaction(aggregated[k])]]

(***************************************************************************)
(* The web application: upload_excel, generate_vies_file, edit_vat.  An    *)
(* upload runs process_data on a processor of its own; the stores UPLOADS  *)
(* and EDITED_VATS and the temporary directory are shared by all requests. *)
(***************************************************************************)
CompanyFromExcel == <<"C", "o", "m", "p", "a", "n", "y", " ", "f", "r", "o", "m", " ", "E", "x", "c", "e", "l">>

TaxNumberFromExcel == <<"T", "a", "x", " ", "N", "u", "m", "b", "e", "r", " ", "f", "r", "o", "m", " ", "E", "x", "c", "e", "l">>

\* the sheets uploaded
AppSheets == {CombinedSheet, BrokenSheet}

\* the rows of an uploaded sheet: the plain row, a row whose amount is no
\* number, a row whose amount cell is a date
AppRowInputs(sh) ==
    {row \in RowInputs(sh) :
        \/ row = BaseRow(sh)
        \/ \E n \in Names(sh) : Holds(sh, n) = "amount" /\ row[n].kind = "date"
        \/ \E n \in Names(sh) : Holds(sh, n) = "amount" /\ row[n] = Text(<<"a", "b", "c">>)}

\* the months uploads happen in: reporting_period is the month of the upload
AppPeriods == {<<"2", "0", "2", "3", "-", "0", "9">>}

\* the most rows of an uploaded sheet
MaxUploadRows == 2

\* the most sessions stored
MaxSessions == 2

\* the threads serving generate requests
MaxThreads == 2

Threads == 1..MaxThreads

\* the session ids a request may carry: 0 is a missing id, an id above the
\* sessions stored is unknown
SessionInputs == 0..MaxSessions

NoRequest == [pc |-> "idle", session_id |-> 0, filepath |-> <<>>, reply |-> NoReply]

Reply(kind, session_id, detail) ==
    [kind |-> kind, session_id |-> session_id, detail |-> detail]

AppInit ==
    /\ vcall = NoCall
    /\ gen = NoGenerator
    /\ output = NoOutput
    /\ rerun = NoRerun
    /\ uploads = <<>>
    /\ edited_vats = <<>>
    /\ files = <<>>
    /\ req = [r \in Threads |-> NoRequest]
    /\ upload_reply = NoReply
    /\ edit_reply = NoReply
    /\ pc = "start"
    /\ sheet \in AppSheets
    /\ columns = <<>>
    /\ column_map = <<>>
    /\ data = <<>>
    /\ total_rows = 0
    /\ valid_transactions = <<>>
    /\ blank_vat_rows = <<>>
    /\ invalid_rows = <<>>
    /\ suspicious_vat_rows = <<>>
    /\ total_amount = 0
    /\ aggregated_by_vat = <<>>
    /\ errors = <<>>
    /\ warnings = <<>>
    /\ result = NotReturned

\* one iteration of the row loop within an upload
UploadRow(row) ==
    /\ Len(data) < MaxUploadRows
    /\ ProcessRow(row)

\* the upload is turned down: process_data returned no data or any error
UploadRejected(data_is_none, errs) == data_is_none \/ errs # <<>>

\* upload_excel after process_data has returned: the errors are flashed and
\* the upload is dropped, or the generator is stored under a new session id
UploadReply(period) ==
    /\ pc \in {"done", "failed"}
    /\ pc' = "replied"
    /\ IF UploadRejected(result.is_none, errors)
       THEN /\ upload_reply' = Reply("redirect", 0, errors)
            /\ UNCHANGED uploads
       ELSE /\ uploads' = Append(uploads,
                                 create_generator(CompanyFromExcel, TaxNumberFromExcel,
                                                  period, result.aggregated_transactions))
            /\ upload_reply' = Reply("rendered", Len(uploads) + 1, warnings)
    /\ UNCHANGED <<sheet, columns, column_map, data, total_rows, valid_transactions,
                   blank_vat_rows, invalid_rows, suspicious_vat_rows, total_amount,
                   aggregated_by_vat, errors, warnings, result,
                   vcall, gen, output, rerun, edited_vats, files, req, edit_reply>>

\* the next upload: a new ExcelProcessor on the uploaded file
NewUpload ==
    /\ pc = "replied"
    /\ Len(uploads) < MaxSessions
    /\ pc' = "start"
    /\ sheet' \in AppSheets
    /\ columns' = <<>>
    /\ column_map' = <<>>
    /\ data' = <<>>
    /\ total_rows' = 0
    /\ valid_transactions' = <<>>
    /\ blank_vat_rows' = <<>>
    /\ invalid_rows' = <<>>
    /\ suspicious_vat_rows' = <<>>
    /\ total_amount' = 0
    /\ aggregated_by_vat' = <<>>
    /\ errors' = <<>>
    /\ warnings' = <<>>
    /\ result' = NotReturned
    /\ upload_reply' = NoReply
    /\ UNCHANGED <<vcall, gen, output, rerun, uploads, edited_vats, files, req, edit_reply>>

\* the file name save_file writes: VIES_{year}_{month}.csv
FileName(reporting_period) ==
    <<"V", "I", "E", "S", "_">> \o Split(reporting_period, "-")[1] \o <<"_">>
    \o Split(reporting_period, "-")[2] \o <<".", "c", "s", "v">>

\* the directory with the file written
Written(dir, name, content) ==
    [n \in DOMAIN dir \cup {name} |-> IF n = name THEN content ELSE dir[n]]

\* generate_vies_file up to the return of save_file: the generator of the
\* session writes its file into the temporary directory
GenerateSave(r, session_id) ==
    /\ req[r].pc = "idle"
    /\ IF session_id = 0 \/ session_id \notin DOMAIN uploads
       THEN /\ req' = [req EXCEPT ![r] = [pc |-> "done", session_id |-> session_id,
                                          filepath |-> <<>>,
                                          reply |-> Reply("redirect", session_id, <<>>)]]
            /\ UNCHANGED files
       ELSE /\ files' = Written(files, FileName(uploads[session_id].reporting_period),
                                FileContent(uploads[session_id]))
            /\ req' = [req EXCEPT ![r] =
                         [pc |-> "saved", session_id |-> session_id,
                          filepath |-> FileName(uploads[session_id].reporting_period),
                          reply |-> NoReply]]
    /\ UNCHANGED <<process_vars, vcall, gen, output, rerun, uploads, edited_vats,
                   upload_reply, edit_reply>>

\* send_file(filepath): the file of that name is read and returned
GenerateSend(r) ==
    /\ req[r].pc = "saved"
    /\ req' = [req EXCEPT ![r].pc = "done",
                          ![r].reply = Reply("file", req[r].session_id,
                                             files[req[r].filepath])]
    /\ UNCHANGED <<process_vars, vcall, gen, output, rerun, uploads, edited_vats, files,
                   upload_reply, edit_reply>>

\* the methods of VIESGenerator
VIESGeneratorMethods == {"__init__", "add_transaction", "generate_file", "save_file"}

\* all([index, country_code, vat_number, session_id]) is false: a value is
\* missing, empty or zero
EditFieldsMissing(index, country_code, vat_number, session_id) ==
    index = 0 \/ country_code = <<>> \/ vat_number = <<>> \/ session_id = 0

\* the entry stored in EDITED_VATS
EditedEntry(country_code, vat_number, line_number) ==
    [country_code |-> Upper(country_code), vat_number |-> vat_number,
     line_number |-> line_number]

\* EDITED_VATS[session_id][index] = entry, on a defaultdict of dicts
SetEdited(store, session_id, index, entry) ==
    Written(store, session_id,
            Written(IF session_id \in DOMAIN store THEN store[session_id] ELSE <<>>,
                    index, entry))

\* the reply of edit_vat once the fields are there and the country code has
\* 2 characters: the call of update_vat_id on the generator of a stored
\* session raises AttributeError, which the handler reports
EditOutcome(session_id, stored) ==
    IF session_id \in stored /\ "update_vat_id" \notin VIESGeneratorMethods
    THEN Reply("error", session_id, <<"'VIESGenerator' object has no attribute 'update_vat_id'">>)
    ELSE Reply("success", session_id, <<>>)

\* edit_vat
EditVat(index, country_code, vat_number, line_number, session_id) ==
    /\ IF EditFieldsMissing(index, country_code, vat_number, session_id)
       THEN /\ edit_reply' = Reply("error", session_id, <<"Missing required fields">>)
            /\ UNCHANGED edited_vats
       ELSE IF Len(country_code) # 2
       THEN /\ edit_reply' = Reply("error", session_id,
                                   <<"Country code must be exactly 2 characters">>)
            /\ UNCHANGED edited_vats
       ELSE /\ edited_vats' = SetEdited(edited_vats, session_id, index,
                                        EditedEntry(country_code, vat_number, line_number))
            /\ edit_reply' = EditOutcome(session_id, DOMAIN uploads)
    /\ UNCHANGED <<process_vars, vcall, gen, output, rerun, uploads, files, req,
                   upload_reply>>

\* the values an edit request carries
EditIndexInputs == {0, 1}

EditCountryInputs == {<<"f", "r">>, <<"F">>}

EditVatInputs == {<<"9", "9">>}

EditLineInputs == {<<"1">>}

AppNext ==
    \/ LoadFails
    \/ LoadAndMap
    \/ \E row \in AppRowInputs(sheet) : UploadRow(row)
    \/ Finish
    \/ \E period \in AppPeriods : UploadReply(period)
    \/ NewUpload
    \/ \E r \in Threads, session_id \in SessionInputs : GenerateSave(r, session_id)
    \/ \E r \in Threads : GenerateSend(r)
    \/ \E index \in EditIndexInputs, country_code \in EditCountryInputs,
          vat_number \in EditVatInputs, line_number \in EditLineInputs,
          session_id \in SessionInputs :
          EditVat(index, country_code, vat_number, line_number, session_id)

AppSpec == AppInit /\ [][AppNext]_vars

(***************************************************************************)
(* process_data followed by create_generator and generate_file             *)
(***************************************************************************)
\* the most rows of a sheet a declaration is made from
MaxDeclaredRows == 2

\* a file with the headers of NamedSheet is about to be processed and no
\* generator exists
DeclareInit ==
    /\ Init
    /\ sheet = NamedSheet

\* one iteration of the row loop
DeclareRow(row) ==
    /\ Len(data) < MaxDeclaredRows
    /\ ProcessRow(row)

\* create_generator(company_name, tax_number, reporting_period, data) with
\* the data process_data returned
CreateGenerator(reporting_period) ==
    /\ pc = "done"
    /\ ~gen.constructed
    /\ gen' = create_generator(CompanyFromExcel, TaxNumberFromExcel, reporting_period,
                                result.aggregated_transactions)
    /\ UNCHANGED <<process_vars, vcall, output, rerun, app_vars>>

DeclareNext ==
    \/ LoadAndMap
    \/ \E row \in RowInputs(sheet) : DeclareRow(row)
    \/ Finish
    \/ \E reporting_period \in AppPeriods : CreateGenerator(reporting_period)
    \/ GenerateFile

DeclareSpec == DeclareInit /\ [][DeclareNext]_vars

(***************************************************************************)
(* Properties of the generator                                             *)
(***************************************************************************)
\* the fields joined by semicolons as they are, and the end of the line
PlainLine(fields) == Join(fields, <<";">>) \o <<"\r", "\n">>

RECURSIVE PlainTransactionLines(_)
PlainTransactionLines(ts) ==
    IF ts = <<>> THEN <<>>
    ELSE PlainLine(<<Head(ts).country_code \o Head(ts).vat_number,
                     FormatAmount(Head(ts).amount), Head(ts).transaction_type>>)
         \o PlainTransactionLines(Tail(ts))

\* the n+1 lines of the claim for the generator g with the period YYYY-MM
PlainFile(g) ==
    PlainLine(<<Finanzamt, g.company_name, g.tax_number,
                SubSeq(g.reporting_period, 6, 7) \o <<"/">> \o SubSeq(g.reporting_period, 1, 4)>>)
    \o PlainTransactionLines(g.transactions)

IsYearMonth(p) ==
    /\ Len(p) = 7
    /\ p[5] = "-"
    /\ \A i \in {1, 2, 3, 4, 6, 7} : p[i] \in Digit

\* C10: for any company name, tax number, period YYYY-MM and any n added
\* transactions, generate_file returns exactly n+1 semicolon-delimited lines
\* with no quoting: the header Finanzamt;company_name;tax_number;MM/YYYY, then
\* per transaction, in order, country_code + vat_number, the amount with a
\* decimal comma and 2 fractional digits, and the transaction type.
C10_PlainSemicolonLines ==
    [][(IsYearMonth(gen.reporting_period) /\ output' # output)
          => (output'.generated /\ output'.content = PlainFile(gen'))]_vars

\* the row of a transaction with the country code and the VAT number as
\* separate fields
SeparateFieldsRow(t) ==
    Join(<<t.country_code, t.vat_number, FormatAmount(t.amount), t.transaction_type>>,
         <<";">>)

\* C11: for every transaction added with add_transaction, the content that
\* generate_file returns contains a row with the country code and the VAT
\* number as separate semicolon-delimited fields:
\* country_code;vat_number;amount with decimal comma;type.
C11_SeparateCountryAndVatFields ==
    [][(output' # output /\ output'.generated)
          => \A i \in DOMAIN gen.transactions :
                Contains(output'.content, SeparateFieldsRow(gen.transactions[i]))]_vars

\* the generator holds n transactions and the three header fields
HoldsHeaderAndTransactions(g, c, t, p, ts) ==
    g = [constructed |-> TRUE, company_name |-> c, tax_number |-> t,
         reporting_period |-> p, transactions |-> ts]

\* a generator right after its construction
NewlyConstructed ==
    \E c \in CompanyInputs, t \in TaxInputs, p \in PeriodInputs :
        HoldsHeaderAndTransactions(gen, c, t, p, <<>>)

\* C12 as claimed: a newly constructed VIESGenerator holds the given company
\* name, tax number and period and no transactions; each add_transaction
\* call appends exactly one transaction carrying the given country code, VAT
\* number, amount and type, and leaves the earlier transactions and the
\* header fields unchanged.
C12_AddAppendsGivenValues ==
    /\ NewlyConstructed
    /\ [][\A c \in GenCountryInputs, v \in GenVatInputs, a \in GenAmountInputs,
             t \in GenTypeInputs :
             AddTransaction(c, v, a, t)
                => gen' = [gen EXCEPT !.transactions =
                             Append(@, [country_code |-> c, vat_number |-> v,
                                        amount |-> a, transaction_type |-> t])]]_vars

\* C12, amended: a newly constructed VIESGenerator holds the given company
\* name, tax number and period and no transactions; each add_transaction
\* call appends exactly one transaction carrying the given country code in
\* upper case, the given VAT number without its blanks, the given amount
\* rounded to 2 decimals and the given type in upper case, and leaves the
\* earlier transactions and the header fields unchanged.
C12_AddAppendsNormalisedValues ==
    /\ NewlyConstructed
    /\ [][\A c \in GenCountryInputs, v \in GenVatInputs, a \in GenAmountInputs,
             t \in GenTypeInputs :
             AddTransaction(c, v, a, t)
                => gen' = [gen EXCEPT !.transactions =
                             Append(@, [country_code |-> Upper(c),
                                        vat_number |-> RemoveChar(v, " "),
                                        amount |-> Round2(a),
                                        transaction_type |-> Upper(t)])]]_vars

\* a generator with two transactions, the second added with a lower-case
\* country code, a VAT number with a blank and an amount of 3 decimals
C12_Witness ==
    /\ Len(gen.transactions) = 2
    /\ gen.transactions[1].country_code = <<"F", "R">>
    /\ gen.transactions[2] = [country_code |-> <<"E", "S">>,
                              vat_number |-> <<"B", "1", "2", "3">>,
                              amount |-> 12350,
                              transaction_type |-> <<"S">>]

(***************************************************************************)
(* Properties of validate_vat_number                                       *)
(***************************************************************************)
\* the VAT number of the call matches the format pattern of its country
CallMatchesFormat ==
    /\ vcall.country_code \in FormatCountries
    /\ ReMatch(FormatOf(vcall.country_code), vcall.vat_number)

\* C8 as claimed: for every country code of VAT_FORMATS and every VAT number
\* that matches the country's pattern, validate_vat_number returns (True, None).
C8_FormatMatchIsValid ==
    vcall.returned /\ CallMatchesFormat => vcall.verdict = Verdict(TRUE, NoReason)

\* s[i..i+n-1] is n times the same digit
SameDigits(s, i, n) ==
    /\ i + n - 1 <= Len(s)
    /\ s[i] \in Digit
    /\ \A j \in i..(i + n - 1) : s[j] = s[i]

\* s contains a run of 4 or more identical consecutive digits
HasRunOfFour(s) == \E i \in DOMAIN s : SameDigits(s, i, 4)

\* s contains 5 consecutive digits counting up from 0..6 (0 following 9) or
\* down from 9..3 (9 following 0)
HasSequenceOfFive(s) ==
    \E i \in 1..(Len(s) - 4) :
        /\ \A j \in i..(i + 4) : s[j] \in Digit
        /\ \/ /\ DigitValue(s[i]) <= 6
              /\ \A j \in i..(i + 3) : DigitValue(s[j + 1]) = (DigitValue(s[j]) + 1) % 10
           \/ /\ DigitValue(s[i]) >= 3
              /\ \A j \in i..(i + 3) : DigitValue(s[j + 1]) = (DigitValue(s[j]) + 9) % 10

\* s is made of digits only and is shorter than 5, or is one digit repeated
ShortOrUniformNumber(s) ==
    /\ s # <<>>
    /\ \A i \in DOMAIN s : s[i] \in Digit
    /\ Len(s) < 5 \/ \A i \in DOMAIN s : s[i] = s[1]

\* C8, amended: for every country code of VAT_FORMATS and every VAT number
\* that matches the country's pattern and trips none of the heuristic checks
\* that precede the format check (4 or more repeated digits, 5 sequential
\* digits, all digits identical, a number shorter than 5 digits),
\* validate_vat_number returns (True, None).
C8_FormatMatchPassingHeuristicsIsValid ==
    /\ vcall.returned
    /\ CallMatchesFormat
    /\ ~HasRunOfFour(vcall.vat_number)
    /\ ~HasSequenceOfFive(vcall.vat_number)
    /\ ~ShortOrUniformNumber(vcall.vat_number)
    => vcall.verdict = Verdict(TRUE, NoReason)

\* a returned call on a Dutch number: 9 digits, B, 2 digits
C8_Witness ==
    /\ vcall.returned
    /\ vcall.country_code = <<"N", "L">>
    /\ CallMatchesFormat
    /\ ~HasRunOfFour(vcall.vat_number)
    /\ ~HasSequenceOfFive(vcall.vat_number)
    /\ vcall.verdict.is_valid

\* C9: a VAT number that contains a run of 4 or more identical consecutive
\* digits is invalid for every country code, known, unknown or empty.
C9_RepeatedDigitsInvalid ==
    vcall.returned /\ HasRunOfFour(vcall.vat_number) => ~vcall.verdict.is_valid

\* a returned call with such a number, otherwise well-formed, and a country
\* code that has no format pattern
C9_Witness ==
    /\ vcall.returned
    /\ HasRunOfFour(vcall.vat_number)
    /\ vcall.country_code = <<"X", "X">>
    /\ ~IsDigitStr(vcall.vat_number)
    /\ vcall.verdict.reason.kind = "repeating"

\* s is made of digits only
OnlyDigits(s) == s # <<>> /\ \A i \in DOMAIN s : s[i] \in Digit

\* the first check, in the order missing field, repeated digits, sequential
\* run, all digits identical, suspiciously short, country format, that the
\* country code cc and the VAT number v fail, s being v without the
\* surrounding blanks; "None" if they fail no check
FirstFailingCheck(cc, v, s) ==
    IF cc = <<>> \/ v = <<>> THEN "missing"
    ELSE IF HasRunOfFour(s) THEN "repeating"
    ELSE IF HasSequenceOfFive(s) THEN "sequential"
    ELSE IF OnlyDigits(s) /\ \A i \in DOMAIN s : s[i] = s[1] THEN "all same"
    ELSE IF OnlyDigits(s) /\ Len(s) < 5 THEN "short"
    ELSE IF Upper(cc) \in FormatCountries /\ ~ReMatch(FormatOf(Upper(cc)), s) THEN "format"
    ELSE "None"

\* the first run of four identical digits of s starts at i and is n long
FirstRunIs(s, i, n) ==
    /\ SameDigits(s, i, n)
    /\ n >= 4
    /\ ~SameDigits(s, i, n + 1)
    /\ \A j \in 1..(i - 1) : ~SameDigits(s, j, 4)

\* the reason r names the digit and the length of the first run of s
NamesFirstRun(r, s) ==
    \E i \in DOMAIN s : r.s = <<s[i]>> /\ FirstRunIs(s, i, r.n)

\* C22: validate_vat_number applies its checks in the order missing field,
\* repeated digits, sequential run of 5, all digits identical, suspiciously
\* short, country format; the reason returned is that of the first failing
\* check, the repetition reason names the digit and the length of the run,
\* the number is valid if no check fails, and a country code absent from
\* the format table skips only the last check.
C22_FirstFailingCheckDecides ==
    vcall.returned =>
        /\ vcall.verdict.reason.kind
              = FirstFailingCheck(vcall.country_code, vcall.vat_number, Strip(vcall.vat_number))
        /\ vcall.verdict.is_valid <=> vcall.verdict.reason.kind = "None"
        /\ vcall.verdict.reason.kind = "repeating"
              => NamesFirstRun(vcall.verdict.reason, Strip(vcall.vat_number))

\* a returned call on a number of eight times the digit 1: it is all
\* identical and fails the German format, and gets the repetition reason
C22_Witness ==
    /\ vcall.returned
    /\ vcall.country_code = <<"D", "E">>
    /\ vcall.vat_number = <<"1", "1", "1", "1", "1", "1", "1", "1">>
    /\ vcall.verdict = Verdict(FALSE, Reason("repeating", 8, <<"1">>))

(***************************************************************************)
(* Properties of process_data                                              *)
(***************************************************************************)
\* what the loop derived from row number i (1-based) of the rows read
RowOf(i) == Extract(data[i], i - 1, column_map)

\* the rows that reached the aggregation, as positions of valid_transactions
ValidRows == DOMAIN valid_transactions

\* the row of self.data behind a valid transaction (a row that reaches the
\* aggregation carries its position as line number)
DataRowOf(j) == RowOf(DigitsValue(valid_transactions[j].line_number))

\* the (country_code, vat_number) pair of a valid row, as the loop extracted it
Pair(j) == <<DataRowOf(j).raw_country_code, DataRowOf(j).raw_vat_number>>

\* the rows merged into entry k: those whose line number the entry holds
Contributors(k) ==
    {j \in ValidRows : valid_transactions[j].line_number \in aggregated_by_vat[k].line_numbers}

RECURSIVE SumAmounts(_)
SumAmounts(S) ==
    IF S = {} THEN 0
    ELSE LET j == CHOOSE x \in S : TRUE
         IN  valid_transactions[j].amount + SumAmounts(S \ {j})

Aggregated == result.aggregated_transactions

\* C1: after process_data the aggregated output holds exactly one record per
\* distinct (country_code, vat_number) pair among the aggregated rows: no two
\* records have the same pair, every aggregated row's pair has its record, and
\* rows whose pairs differ never contribute to the same record.
C1_OneRecordPerPair ==
    pc = "done" =>
        /\ \A k1, k2 \in DOMAIN Aggregated :
              k1 # k2 =>
                 <<Aggregated[k1].country_code, Aggregated[k1].vat_number>>
                 # <<Aggregated[k2].country_code, Aggregated[k2].vat_number>>
        /\ \A i \in ValidRows :
              \E k \in DOMAIN Aggregated :
                 /\ i \in Contributors(k)
                 /\ <<Aggregated[k].country_code, Aggregated[k].vat_number>> = Pair(i)
        /\ \A k \in DOMAIN Aggregated :
              \A i, j \in Contributors(k) : Pair(i) = Pair(j)

\* C2: the amount of every aggregated record is the sum of the amounts of
\* exactly the rows merged into its key, rounded to 2 decimals, and every
\* aggregated row is merged into exactly one record.
C2_AmountIsSumOfContributors ==
    /\ \A k \in DOMAIN aggregated_by_vat :
          aggregated_by_vat[k].amount = SumAmounts(Contributors(k))
    /\ \A i \in ValidRows :
          Cardinality({k \in DOMAIN aggregated_by_vat : i \in Contributors(k)}) = 1
    /\ pc = "done" =>
          /\ Len(Aggregated) = Len(aggregated_by_vat)
          /\ \A k \in DOMAIN Aggregated :
                Aggregated[k].amount = Round2(SumAmounts(Contributors(k)))

\* a finished run with a record of two rows whose sum needs rounding, beside
\* another record
C2_Witness ==
    /\ pc = "done"
    /\ Len(Aggregated) >= 2
    /\ \E k \in DOMAIN Aggregated :
          /\ Cardinality(Contributors(k)) >= 2
          /\ aggregated_by_vat[k].amount # Aggregated[k].amount

RowType(j) == valid_transactions[j].transaction_type

\* a step never takes an aggregate from S back to L
StickyStep ==
    \A k \in DOMAIN aggregated_by_vat :
        aggregated_by_vat[k].transaction_type = "S"
            => aggregated_by_vat'[k].transaction_type = "S"

\* an aggregate is S exactly if one of its rows is S, else L
TypeIsAnyServices ==
    /\ \A k \in DOMAIN aggregated_by_vat :
          aggregated_by_vat[k].transaction_type =
             IF \E i \in Contributors(k) : RowType(i) = "S" THEN "S" ELSE "L"
    /\ pc = "done" =>
          \A k \in DOMAIN Aggregated :
             Aggregated[k].transaction_type = aggregated_by_vat[k].transaction_type

\* C3: services is sticky: at every step of the pass an aggregate that is S
\* stays S, and an aggregate is S if and only if at least one of its
\* contributing rows is S (otherwise L), whatever the order of the rows.
C3_ServicesSticky == [][StickyStep]_vars /\ []TypeIsAnyServices

\* a finished run where a goods row was merged after a services row of the
\* same key, and one where it was merged before
C3_Witness ==
    /\ pc = "done"
    /\ \E k \in DOMAIN Aggregated :
          /\ Aggregated[k].transaction_type = "S"
          /\ \E i, j \in Contributors(k) : i < j /\ RowType(i) = "S" /\ RowType(j) = "L"

NonTotalRows == {i \in DOMAIN data : ~IsTotalLine(data[i], column_map)}

\* no output holds a row of line number ln
LineInNoOutput(ln) ==
    /\ \A t \in Range(valid_transactions) \cup Range(blank_vat_rows)
                \cup Range(suspicious_vat_rows) : t.line_number # ln
    /\ \A k \in DOMAIN aggregated_by_vat : ln \notin aggregated_by_vat[k].line_numbers
    /\ \A k \in DOMAIN invalid_rows : invalid_rows[k].line_number # ln

\* no output holds a row flagged as total line or the line number of a total
\* line read
TotalLineInNoOutput ==
    /\ \A t \in Range(valid_transactions) \cup Range(blank_vat_rows)
                \cup Range(suspicious_vat_rows) : ~t.is_total_line
    /\ \A i \in DOMAIN data :
          IsTotalLine(data[i], column_map)
              => LineInNoOutput(LineNumber(data[i], i - 1, column_map))

\* the counts of the metrics other than total_rows count rows that are no
\* total lines
TotalLineInNoBucketCount ==
    pc = "done" =>
        /\ result.metrics.valid_transactions = Len(valid_transactions)
        /\ result.metrics.blank_vat_entries = Len(blank_vat_rows)
        /\ result.metrics.suspicious_vat_entries = Len(suspicious_vat_rows)
        /\ result.metrics.invalid_rows = Len(invalid_rows)
        /\ result.metrics.combined_transactions = Len(Aggregated)
        /\ result.metrics.valid_transactions + result.metrics.blank_vat_entries
              + result.metrics.invalid_rows <= Cardinality(NonTotalRows)
        /\ result.metrics.suspicious_vat_entries <= Cardinality(NonTotalRows)
        /\ result.metrics.total_amount = Round2(SumAmounts(ValidRows))

\* C4 as claimed: a total-line row never appears in the aggregated, blank-VAT
\* or suspicious outputs and is excluded from all counts of the metrics,
\* total_rows included.
C4_TotalLineExcludedFromAllCounts ==
    /\ TotalLineInNoOutput
    /\ TotalLineInNoBucketCount
    /\ pc = "done" => result.metrics.total_rows = Cardinality(NonTotalRows)

\* C4, amended: a total-line row never appears in the aggregated, blank-VAT,
\* suspicious, valid or invalid outputs and is excluded from every count of
\* the metrics except total_rows, which counts every row read.
C4_TotalLineExcluded ==
    /\ TotalLineInNoOutput
    /\ TotalLineInNoBucketCount
    /\ pc = "done" => result.metrics.total_rows = Len(data)

\* a finished run that read a total line with a blank VAT and a total line
\* with a VAT number the validator rejects
C4_Witness ==
    /\ pc = "done"
    /\ \E i \in DOMAIN data :
          IsTotalLine(data[i], column_map) /\ IsBlankVat(RowOf(i).raw_vat_number)
    /\ \E i \in DOMAIN data :
          /\ IsTotalLine(data[i], column_map)
          /\ ~IsBlankVat(RowOf(i).raw_vat_number)
          /\ ~validate_vat_number(RowOf(i).raw_country_code, RowOf(i).raw_vat_number).is_valid

\* C5: every row recorded in the suspicious output is still included in the
\* aggregation: it is among the valid transactions and its amount is part of
\* the aggregated record of its key.
C5_SuspiciousStillAggregated ==
    \A t \in Range(suspicious_vat_rows) :
        /\ t \in Range(valid_transactions)
        /\ \E k \in DOMAIN aggregated_by_vat :
              t.line_number \in aggregated_by_vat[k].line_numbers

\* the non-blank customer references of the rows merged into entry k
ContributingCustomers(k) ==
    {valid_transactions[j].customer : j \in Contributors(k)} \ {<<>>}

\* C6: multiple_customers is true if and only if more than one distinct
\* non-blank customer reference contributed to the record.
C6_MultipleCustomers ==
    pc = "done" =>
        \A k \in DOMAIN Aggregated :
            Aggregated[k].multiple_customers <=> Cardinality(ContributingCustomers(k)) > 1

SuspiciousContributors(k) == {j \in Contributors(k) : valid_transactions[j].is_suspicious}

\* C7: an aggregated record is suspicious if and only if one of its rows was,
\* and its reason is the reason of the first suspicious row in row order.
C7_FirstReasonKept ==
    pc = "done" =>
        \A k \in DOMAIN Aggregated :
            /\ Aggregated[k].is_suspicious <=> SuspiciousContributors(k) # {}
            /\ SuspiciousContributors(k) # {} =>
                  Aggregated[k].suspicion_reason
                  = valid_transactions[Min(SuspiciousContributors(k))].suspicion_reason

(***************************************************************************)
(* Failures of process_data                                                *)
(***************************************************************************)
\* no row was processed: no row read, nothing in a bucket or an aggregate,
\* no message about a row
NoRowProcessed ==
    /\ data = <<>>
    /\ total_rows = 0
    /\ valid_transactions = <<>>
    /\ blank_vat_rows = <<>>
    /\ invalid_rows = <<>>
    /\ suspicious_vat_rows = <<>>
    /\ aggregated_by_vat = <<>>
    /\ total_amount = 0
    /\ \A i \in DOMAIN warnings : warnings[i].msg = "Missing expected columns"
    /\ \A i \in DOMAIN errors : errors[i].msg # "Error processing row"

\* no data and empty metrics returned
ReturnedNothing == result.returned /\ result.is_none /\ result.metrics = <<>>

\* the required fields that no header of the sheet names and no position
\* supplies: the sheet has fewer columns than the fallback needs
StillUnmapped ==
    {f \in {"amount", "vat_number"} :
        /\ Len(sheet) < 6
        /\ \A i \in DOMAIN sheet : sheet[i].name \notin possible_names[f]}

\* the columns were read and mapped
Mapped == columns # <<>>

\* C13: if after name mapping and positional fallback a required field
\* (amount or vat_number) is still unmapped, process_data fails hard: it
\* returns no data and empty metrics, its error list names exactly the
\* missing required fields, and no row is processed; with both required
\* fields mapped the run goes on to the rows.
C13_MissingRequiredFieldsFailHard ==
    /\ (Mapped /\ StillUnmapped # {}) =>
          /\ pc = "failed"
          /\ ReturnedNothing
          /\ Len(errors) = 1
          /\ errors[1].msg = "Missing required columns"
          /\ Range(errors[1].detail) = StillUnmapped
          /\ Len(errors[1].detail) = Cardinality(StillUnmapped)
          /\ NoRowProcessed
    /\ (Mapped /\ StillUnmapped = {}) => pc \in {"rows", "done"}

\* the run on the sheet without VAT column has failed
C13_Witness ==
    /\ pc = "failed"
    /\ Mapped
    /\ StillUnmapped = {"vat_number"}
    /\ errors[1].detail = <<"vat_number">>

\* C14: when the file cannot be read or parsed as a spreadsheet,
\* process_data aborts before any column mapping or row processing, returns
\* no data, and the returned error list has exactly one entry.
C14_LoadFailureIsOneError ==
    (pc = "failed" /\ ~Mapped) =>
        /\ ReturnedNothing
        /\ column_map = <<>>
        /\ NoRowProcessed
        /\ Len(errors) = 1

\* the rows read whose amount no conversion accepts or whose extraction raises
FailedRows ==
    {i \in DOMAIN data :
        AmountRaises(data[i], column_map) \/ ~Amount(data[i], column_map).ok}

\* the messages about a single row
RowMessages(log) ==
    {k \in DOMAIN log : log[k].msg \in {"Invalid amount in row", "Error processing row"}}

\* C15: a row-level failure (an amount that fails the numeric parse and the
\* comma-to-dot retry, or an exception while extracting a row) skips only
\* that row: the row is in no bucket and no aggregate, one message naming
\* the row is recorded, every later row is still processed, and the run is
\* never aborted: the upload completes and delivers the results of the
\* other rows.
C15_RowFailureSkipsOnlyTheRow ==
    /\ pc \in {"rows", "done", "replied"} =>
          /\ total_rows = Len(data)
          /\ \A i \in FailedRows : LineInNoOutput(LineNumber(data[i], i - 1, column_map))
          /\ Cardinality(RowMessages(warnings)) + Cardinality(RowMessages(errors))
                = Cardinality(FailedRows)
          /\ \A i \in FailedRows :
                \E k \in RowMessages(warnings) \cup RowMessages(errors) :
                   \/ k \in RowMessages(warnings)
                        /\ warnings[k].line = LineNumber(data[i], i - 1, column_map)
                   \/ k \in RowMessages(errors) /\ errors[k].line = NatStr(i)
    /\ (pc = "replied" /\ ~result.is_none) =>
          /\ upload_reply.kind = "rendered"
          /\ upload_reply.session_id \in DOMAIN uploads
          /\ Len(uploads[upload_reply.session_id].transactions)
                = Len(result.aggregated_transactions)

\* C16: for an existing session, an edit request that gives a record
\* reference and a corrected (country_code, vat_number) replaces the country
\* code and VAT number of that stored transaction in place and reports
\* success, without re-running the pipeline, and leaves the amounts and all
\* other transactions of that session and every other session unchanged.
C16_EditReplacesInPlace ==
    [][\A index \in EditIndexInputs, country_code \in EditCountryInputs,
          vat_number \in EditVatInputs, line_number \in EditLineInputs,
          session_id \in SessionInputs :
          (/\ EditVat(index, country_code, vat_number, line_number, session_id)
           /\ ~EditFieldsMissing(index, country_code, vat_number, session_id)
           /\ Len(country_code) = 2
           /\ session_id \in DOMAIN uploads
           /\ uploads[session_id].transactions # <<>>)
          => /\ edit_reply'.kind = "success"
             /\ DOMAIN uploads' = DOMAIN uploads
             /\ \A other \in DOMAIN uploads \ {session_id} : uploads'[other] = uploads[other]
             /\ \E k \in DOMAIN uploads[session_id].transactions :
                   uploads'[session_id] =
                      [uploads[session_id] EXCEPT
                          !.transactions[k].country_code = Upper(country_code),
                          !.transactions[k].vat_number = vat_number]
             /\ UNCHANGED process_vars]_vars

\* C17: under any interleaving of upload and generate requests, the file a
\* generate request for session X returns holds only the transactions
\* stored for X, also when sessions share the reporting period.
C17_SessionIsolation ==
    \A r \in DOMAIN req :
        req[r].reply.kind = "file"
            => req[r].reply.detail = FileContent(uploads[req[r].session_id])

(***************************************************************************)
(* Properties of repeated runs and of the merge                            *)
(***************************************************************************)
\* C18: running process_data again on an unchanged row set, by a fresh
\* processor or by the same processor instance, yields metrics identical to
\* the first run and the same set of aggregated records, up to ordering.
C18_RerunIsIdempotent ==
    (rerun.active /\ pc \in {"done", "failed"}) =>
        /\ result.is_none = rerun.first.is_none
        /\ result.metrics = rerun.first.metrics
        /\ Len(result.aggregated_transactions) = Len(rerun.first.aggregated_transactions)
        /\ Range(result.aggregated_transactions)
              = Range(rerun.first.aggregated_transactions)

\* the second run of the same processor has finished: the file has a row
\* that was merged and a row with an invalid amount, whose warning the
\* processor now holds twice
C18_Witness ==
    /\ rerun.active
    /\ pc = "done"
    /\ Len(data) = 2
    /\ result.metrics.valid_transactions = 1
    /\ Cardinality(RowMessages(warnings)) = 2

\* row j of valid_transactions as the loop body merged it into entry k
MergedRow(k, j) ==
    [vat_key |-> aggregated_by_vat[k].key,
     raw_country_code |-> aggregated_by_vat[k].country_code,
     raw_vat_number |-> aggregated_by_vat[k].vat_number,
     transaction |-> valid_transactions[j]]

\* every order the rows S can be merged in
RECURSIVE Orders(_)
Orders(S) ==
    IF S = {} THEN {<<>>}
    ELSE UNION {{<<j>> \o o : o \in Orders(S \ {j})} : j \in S}

\* the rows order[1], order[2], ... of key k merged into aggs one after another
RECURSIVE MergeAll(_, _, _)
MergeAll(aggs, k, order) ==
    IF order = <<>> THEN aggs
    ELSE MergeAll(MergeRow(aggs, MergedRow(k, Head(order))), k, Tail(order))

\* the aggregate a holds one entry, with the amount sum, the customer set
\* and the suspicious flag of the entry b
SameAggregate(a, b) ==
    /\ Len(a) = 1
    /\ a[1].key = b.key
    /\ a[1].amount = b.amount
    /\ a[1].customer_numbers = b.customer_numbers
    /\ a[1].is_suspicious = b.is_suspicious

\* the rows of key k merged in the order o, in two batches split after n rows
MergedInBatches(k, o, n) ==
    MergeAll(MergeAll(<<>>, k, SubSeq(o, 1, n)), k, SubSeq(o, n + 1, Len(o)))

OrderDoesNotMatter(k) ==
    \A o \in Orders(Contributors(k)) : \A n \in 0..Len(o) :
        SameAggregate(MergedInBatches(k, o, n), aggregated_by_vat[k])

MergedDataRows == {i \in 1..Len(data) : RowOf(i).branch = "valid"}

\* the sum of the amounts of the rows S of data
RECURSIVE SumOfRows(_)
SumOfRows(S) ==
    IF S = {} THEN 0
    ELSE LET i == CHOOSE x \in S : TRUE
         IN  RowOf(i).transaction.amount + SumOfRows(S \ {i})

\* the sum of the amounts of the aggregated records
RECURSIVE SumOfRecords(_)
SumOfRecords(records) ==
    IF records = <<>> THEN 0
    ELSE Head(records).amount + SumOfRecords(Tail(records))

\* C20: the metrics are a function of the classified rows: valid_transactions
\* is the number of NORMAL plus SUSPICIOUS rows, suspicious_vat_entries counts
\* only rows that are among them, combined_transactions is the number of
\* aggregated records, and total_amount is the sum of the amounts of the
\* NORMAL plus SUSPICIOUS rows rounded to 2 decimals, which is the sum of the
\* amounts of all aggregated records.
C20_MetricsOfClassifiedRows ==
    pc = "done" =>
        /\ result.metrics.valid_transactions = Cardinality(MergedDataRows)
        /\ result.metrics.suspicious_vat_entries
              = Cardinality({i \in MergedDataRows : RowOf(i).transaction.is_suspicious})
        /\ result.metrics.combined_transactions = Len(result.aggregated_transactions)
        /\ result.metrics.total_amount = Round2(SumOfRows(MergedDataRows))
        /\ result.metrics.total_amount = SumOfRecords(result.aggregated_transactions)

(***************************************************************************)
(* The column mapping                                                      *)
(***************************************************************************)
\* C21: in the mapping returned by map_columns each source column is claimed
\* by at most one field, whether the fields are resolved by name or by the
\* positional fallback, and a field mapped by name is not changed by the
\* fallback.
C21_ColumnClaimedOnce ==
    pc = "mapped" =>
        /\ \A f, g \in DOMAIN column_map :
              f # g => column_map[f] # column_map[g]
        /\ \A f \in DOMAIN MapByName(columns) :
              f \in DOMAIN column_map /\ column_map[f] = MapByName(columns)[f]

(***************************************************************************)
(* The classification of the rows                                          *)
(***************************************************************************)
\* row i of data is neither a total line nor a row with a blank VAT number
NeitherTotalNorBlank(i) ==
    /\ ~IsTotalLine(data[i], column_map)
    /\ ~IsBlankVat(Extracted(data[i], column_map).vat)

\* the amount of row i was read: the cell is empty, a number or a text that
\* float() accepts
AmountWasRead(i) ==
    /\ ~AmountRaises(data[i], column_map)
    /\ Amount(data[i], column_map).ok

\* row i has an amount and it is 0 (an empty amount cell counts 0)
AmountIsZero(i) == AmountWasRead(i) /\ Amount(data[i], column_map).value = 0

NoCountryCode(i) == CountryCode(data[i], column_map) = <<>>

\* the entries of invalid_rows for row i
InvalidEntries(i) ==
    {k \in DOMAIN invalid_rows :
        invalid_rows[k].line_number = LineNumber(data[i], i - 1, column_map)}

\* row i is in no aggregate and not among the valid transactions
NotAggregated(i) ==
    /\ \A k \in DOMAIN aggregated_by_vat :
          LineNumber(data[i], i - 1, column_map) \notin aggregated_by_vat[k].line_numbers
    /\ \A j \in DOMAIN valid_transactions :
          valid_transactions[j].line_number # LineNumber(data[i], i - 1, column_map)

\* row i is classified INVALID exactly when it lacks the country code or its
\* amount is 0, and an INVALID row has a reason and is not aggregated
InvalidExactlyWhenEssentialDataMissing(i) ==
    /\ InvalidEntries(i) # {} <=> (NoCountryCode(i) \/ AmountIsZero(i))
    /\ \A k \in InvalidEntries(i) : invalid_rows[k].reason # ""
    /\ InvalidEntries(i) # {} => NotAggregated(i)
    /\ Cardinality(InvalidEntries(i)) <= 1

\* C23 as claimed: a row that is neither a total line nor blank-VAT is
\* classified INVALID exactly when its country code is empty or its amount
\* equals 0; such a row is recorded in invalid_rows with a reason and
\* contributes to no aggregate, to no valid count and to no total amount; a
\* row with a country code and a non-zero amount, negative ones included, is
\* never put in invalid_rows.
C23_InvalidExactlyWhenEssentialDataMissing ==
    /\ \A i \in DOMAIN data :
          NeitherTotalNorBlank(i) => InvalidExactlyWhenEssentialDataMissing(i)
    /\ total_amount = SumAmounts(ValidRows)

\* C23, amended: the same for a row that is neither a total line nor
\* blank-VAT and whose amount was read; a row whose amount cell cannot be
\* converted leaves the loop before the classification and is not put in
\* invalid_rows, with or without a country code.
C23_InvalidAmongRowsWithAnAmount ==
    /\ \A i \in DOMAIN data :
          NeitherTotalNorBlank(i) =>
              IF AmountWasRead(i) THEN InvalidExactlyWhenEssentialDataMissing(i)
              ELSE InvalidEntries(i) = {} /\ NotAggregated(i)
    /\ total_amount = SumAmounts(ValidRows)

\* a row with a negative amount was merged, a row with amount 0 is in
\* invalid_rows and left the total amount alone
C23_Witness ==
    /\ pc = "done"
    /\ Len(data) = 2
    /\ NeitherTotalNorBlank(1) /\ NeitherTotalNorBlank(2)
    /\ Amount(data[1], column_map).value < 0 /\ ~NoCountryCode(1)
    /\ AmountIsZero(2) /\ ~NoCountryCode(2)
    /\ InvalidEntries(1) = {} /\ InvalidEntries(2) # {}
    /\ Len(valid_transactions) = 1
    /\ total_amount = -20000

\* the rows skipped for a row-level failure: the amount could not be read
SkippedRows == {i \in DOMAIN data : ~AmountWasRead(i)}

\* the total lines among the rows that got as far as the classification
TotalLineRows == {i \in DOMAIN data : AmountWasRead(i) /\ IsTotalLine(data[i], column_map)}

\* the outputs that hold row i, by its line number
OutputsHolding(i) ==
    LET line == LineNumber(data[i], i - 1, column_map) IN
    {o \in {"valid", "blank", "invalid", "suspicious"} :
        CASE o = "valid" -> \E j \in DOMAIN valid_transactions :
                               valid_transactions[j].line_number = line
          [] o = "blank" -> \E j \in DOMAIN blank_vat_rows :
                               blank_vat_rows[j].line_number = line
          [] o = "invalid" -> \E j \in DOMAIN invalid_rows :
                               invalid_rows[j].line_number = line
          [] o = "suspicious" -> \E j \in DOMAIN suspicious_vat_rows :
                               suspicious_vat_rows[j].line_number = line}

\* C24: row conservation: after process_data every row read is accounted for
\* exactly once, total_rows = valid_transactions + blank_vat_entries +
\* invalid_rows + the total lines + the rows skipped for a row-level failure,
\* no row is in more than one of the valid, blank-VAT and invalid outputs,
\* and no row is in both the suspicious and the invalid output.
C24_RowConservation ==
    pc = "done" =>
        /\ result.metrics.total_rows = Len(data)
        /\ result.metrics.total_rows
              = result.metrics.valid_transactions + result.metrics.blank_vat_entries
                + result.metrics.invalid_rows + Cardinality(TotalLineRows)
                + Cardinality(SkippedRows)
        /\ \A i \in DOMAIN data \ TotalLineRows :
              /\ Cardinality(OutputsHolding(i) \ {"suspicious"}) <= 1
              /\ ~({"suspicious", "invalid"} \subseteq OutputsHolding(i))

(***************************************************************************)
(* The generator made from the aggregated records                          *)
(***************************************************************************)
\* the counterparty of a transaction of the generator
Counterparty(t) == <<t.country_code, t.vat_number>>

\* C25: the generator built by create_generator from the output of
\* process_data holds exactly one transaction per aggregated record, and no
\* two of its transactions have the same (country_code, vat_number) after
\* the generator's normalisation: the declaration never lists the same
\* counterparty twice.
C25_NoCounterpartyTwice ==
    gen.constructed =>
        /\ Len(gen.transactions) = Len(result.aggregated_transactions)
        /\ \A i, j \in DOMAIN gen.transactions :
              i # j => Counterparty(gen.transactions[i]) # Counterparty(gen.transactions[j])

(***************************************************************************)
(* Edit requests that fail                                                 *)
(***************************************************************************)
\* the step is an edit_vat request
IsEditRequest ==
    \E index \in EditIndexInputs, country_code \in EditCountryInputs,
       vat_number \in EditVatInputs, line_number \in EditLineInputs,
       session_id \in SessionInputs :
       EditVat(index, country_code, vat_number, line_number, session_id)

\* C26: an edit_vat request that answers success = False leaves every store
\* unchanged: EDITED_VATS, UPLOADS and the transactions of every stored
\* generator are after the request as they were before it.
C26_FailedEditChangesNothing ==
    [][(IsEditRequest /\ edit_reply'.kind = "error")
          => UNCHANGED <<edited_vats, uploads>>]_vars

====
